---- MODULE Spec2Model ----
(***************************************************************************)
(* A model of the request dispatch pipeline of cerces:                     *)
(*   - the route trie (src/src/routing.ts: RouteNode, RouteMatcher),       *)
(*   - route registration and router inclusion (src/src/core.ts: Router),   *)
(*   - path normalisation (src/src/helpers.ts: fixPathSlashes).            *)
(* Strings are sequences of one-character strings, so that slicing,       *)
(* splitting and prefix tests are computed as the code computes them.     *)
(***************************************************************************)
EXTENDS Integers, Sequences, FiniteSets, TLC

(***************************************************************************)
(* Bounds of the model.                                                    *)
(***************************************************************************)
MaxRouteCalls == 2
MaxIncludes == 2

(***************************************************************************)
(* Strings used by the model (paths, as sequences of characters).          *)
(***************************************************************************)
PRoot == <<"/">>
PA == <<"/", "a">>
PB == <<"/", "b">>
PX == <<"/", "{", "x", "}">>
PY == <<"/", "{", "y", "}">>
PAA == <<"/", "a", "/", "a">>
PAB == <<"/", "a", "/", "b">>
\* a request segment that is an inherited member of every JS object
PValueOf == <<"/", "v", "a", "l", "u", "e", "O", "f">>

WildKey == <<"{", "}">>

\* Property names every plain object ({}) inherits from Object.prototype;
\* `obj[key]` yields a function for them even when `key` was never set.
InheritedKeys == { <<"v", "a", "l", "u", "e", "O", "f">> }

Methods == {"GET", "POST"}
\* methods a request may carry
ReqMethods == {"GET", "POST", "DELETE"}

RouterIds == {"r1", "r2"}

\* paths handed to Router.route / App.route
RoutePaths == {PRoot, PA, PX}
\* prefixes handed to Router.include
Prefixes == {PA, PY}
\* the root path the App is constructed with (the default)
AppRootPath == <<"/">>
\* request paths
ReqPaths == {PRoot, PA, PB, PAA, PAB, PValueOf}

\* middleware lists: the App's, each Router's and a route's own
AppMiddleware == <<"m1">>
RouterMiddleware(id) == IF id = "r1" THEN <<"m2">> ELSE <<"m3">>
\* a route registered with POST carries its own middleware, a GET route none
RouteMiddleware(method) == IF method = "POST" THEN <<"m4">> ELSE <<>>

(***************************************************************************)
(* helpers.ts                                                              *)
(***************************************************************************)
fixPathSlashes(path) ==
    IF Len(path) = 0 \/ path = <<"/">> THEN <<"/">>
    ELSE LET p1 == IF path[1] # "/" THEN <<"/">> \o path ELSE path
             p2 == IF Len(p1) >= 2 /\ p1[1] = "/" /\ p1[2] = "/" THEN Tail(p1) ELSE p1
             p3 == IF p2[Len(p2)] = "/" THEN SubSeq(p2, 1, Len(p2) - 1) ELSE p2
         IN p3

\* String.prototype.split("/"): the pieces between slashes; "" gives [""].
RECURSIVE SplitFrom(_, _, _)
SplitFrom(s, i, cur) ==
    IF i > Len(s) THEN <<cur>>
    ELSE IF s[i] = "/" THEN <<cur>> \o SplitFrom(s, i + 1, <<>>)
    ELSE SplitFrom(s, i + 1, Append(cur, s[i]))

SplitSlash(s) == SplitFrom(s, 1, <<>>)

\* fixPathSlashes(path).split("/").slice(1)
PathNodes(path) == Tail(SplitSlash(fixPathSlashes(path)))

(***************************************************************************)
(* routing.ts: RouteNode                                                   *)
(* The trie is a function from a node's position (the sequence of child    *)
(* keys leading to it from the root) to the node's fields; `inner` of a    *)
(* node p is the set of positions Append(p, key) in the domain.            *)
(***************************************************************************)

\* new RouteNode(name); routeKeys is the insertion order of the keys of routes
NewRouteNode(name) ==
    [name |-> name, routes |-> <<>>, routeKeys |-> <<>>,
     middleware |-> <<>>, paramNames |-> <<>>]

\* RouteNode.touch: this.inner[node] ||= new RouteNode(node)
touch(tree, pos, node) ==
    IF Append(pos, node) \in DOMAIN tree THEN tree
    ELSE [p \in (DOMAIN tree) \cup {Append(pos, node)} |->
            IF p \in DOMAIN tree THEN tree[p] ELSE NewRouteNode(node)]

\* a variant of RouteNode.match that tries the wildcard child first
NodeMatch_WildcardFirst(tree, pos, node) ==
    IF Append(pos, WildKey) \in DOMAIN tree THEN [kind |-> "node", pos |-> Append(pos, WildKey)]
    ELSE IF Append(pos, node) \in DOMAIN tree THEN [kind |-> "node", pos |-> Append(pos, node)]
    ELSE IF node \in InheritedKeys THEN [kind |-> "inherited", pos |-> pos]
    ELSE [kind |-> "none", pos |-> pos]

\* RouteNode.match: this.inner[node] ?? this.inner["{}"].  The result is the
\* position of the child, "inherited" when the lookup finds a member of
\* Object.prototype (which is not nullish, so ?? keeps it), or "none".
NodeMatch(tree, pos, node) ==
    IF Append(pos, node) \in DOMAIN tree THEN [kind |-> "node", pos |-> Append(pos, node)]
    ELSE IF node \in InheritedKeys THEN [kind |-> "inherited", pos |-> pos]
    ELSE IF Append(pos, WildKey) \in DOMAIN tree THEN [kind |-> "node", pos |-> Append(pos, WildKey)]
    ELSE [kind |-> "none", pos |-> pos]

(***************************************************************************)
(* routing.ts: RouteMatcher                                                *)
(***************************************************************************)
NewRouteMatcher == [routes |-> <<>>, tree |-> (<<>> :> NewRouteNode(<<>>))]

IsPlaceholder(node) == Len(node) >= 1 /\ node[1] = "{" /\ node[Len(node)] = "}"

\* node.slice(1, -1)
PlaceholderName(node) == SubSeq(node, 2, Len(node) - 1)

\* RouteMatcher.get: walks/creates the nodes of `path`, records the
\* placeholder names on the last node; yields the new tree and the position.
RECURSIVE GetWalk(_, _, _, _, _)
GetWalk(tree, nodes, index, pos, paramNames) ==
    IF index > Len(nodes) THEN [tree |-> tree, pos |-> pos]
    ELSE LET raw == nodes[index]
             ph == IsPlaceholder(raw)
             names == IF ph THEN Append(paramNames, PlaceholderName(raw)) ELSE paramNames
             node == IF ph THEN WildKey ELSE raw
             t1 == touch(tree, pos, node)
             npos == Append(pos, node)
         IN IF index = Len(nodes)
            THEN [tree |-> [t1 EXCEPT ![npos].paramNames = names], pos |-> npos]
            ELSE GetWalk(t1, nodes, index + 1, npos, names)

MatcherGet(tree, path) == GetWalk(tree, PathNodes(path), 1, <<>>, <<>>)

\* RouteMatcher.set(path | null, {middleware}); path "null" is modelled by <<"null">>
NullPath == <<"null">>
MatcherSet(rm, path, middleware) ==
    LET g == IF path = NullPath THEN [tree |-> rm.tree, pos |-> <<>>]
             ELSE MatcherGet(rm.tree, path)
    IN [rm EXCEPT !.tree = [g.tree EXCEPT ![g.pos].middleware = middleware]]

\* a variant of the assignment that replaces the whole table of the node
PutRoute_ReplaceTable(node, route) ==
    [node EXCEPT !.routes = <<route>>, !.routeKeys = <<route.method>>]

\* node.routes[route.method] = route, keeping the insertion order of the keys
PutRoute(node, route) ==
    LET has == \E i \in 1..Len(node.routeKeys) : node.routeKeys[i] = route.method
    IN [node EXCEPT
          !.routes = [i \in 1..Len(node.routeKeys) + (IF has THEN 0 ELSE 1) |->
                        IF i <= Len(node.routeKeys) /\ node.routeKeys[i] # route.method
                        THEN node.routes[i] ELSE route],
          !.routeKeys = IF has THEN node.routeKeys ELSE Append(node.routeKeys, route.method)]

\* RouteMatcher.push(route)
MatcherPush(rm, route) ==
    LET g == MatcherGet(rm.tree, route.path)
    IN [routes |-> Append(rm.routes, route),
        tree |-> [g.tree EXCEPT ![g.pos] = PutRoute(g.tree[g.pos], route)]]

\* tree.routes[method]
NodeRouteIndex(node, method) ==
    {i \in 1..Len(node.routeKeys) : node.routeKeys[i] = method}

\* the params object built by the loop over tree.paramNames; a later
\* assignment to the same name overwrites the earlier one
RECURSIVE ZipParams(_, _, _, _)
ZipParams(paramNames, paramValues, i, params) ==
    IF i > Len(paramNames) THEN params
    ELSE ZipParams(paramNames, paramValues, i + 1,
            [n \in (DOMAIN params) \cup {paramNames[i]} |->
                IF n = paramNames[i]
                THEN (IF i <= Len(paramValues) THEN paramValues[i] ELSE <<"undefined">>)
                ELSE params[n]])

EmptyMap == [n \in {} |-> <<>>]
NoRoute == [method |-> "none", path |-> <<>>, middleware |-> <<>>, via |-> <<>>]

\* RouteMatcher.match
RECURSIVE MatchWalk(_, _, _, _, _, _, _)
MatchWalk(tree, method, nodes, index, pos, paramValues, middleware) ==
    IF index > Len(nodes)
    THEN [kind |-> "notfound", route |-> NoRoute, params |-> EmptyMap,
          allow |-> <<>>, middleware |-> middleware, pos |-> pos]
    ELSE LET node == nodes[index]
             nextMatcher == NodeMatch(tree, pos, node)
         IN IF nextMatcher.kind = "none"
            THEN [kind |-> "notfound", route |-> NoRoute, params |-> EmptyMap,
                  allow |-> <<>>, middleware |-> middleware, pos |-> pos]
            ELSE IF nextMatcher.kind = "inherited"
            \* tree.middleware is undefined on the inherited function:
            \* middleware.push(...undefined) raises a TypeError
            THEN [kind |-> "throw", route |-> NoRoute, params |-> EmptyMap,
                  allow |-> <<>>, middleware |-> middleware, pos |-> pos]
            ELSE LET npos == nextMatcher.pos
                     t == tree[npos]
                     mw == middleware \o t.middleware
                     pv == IF t.name = WildKey THEN Append(paramValues, node) ELSE paramValues
                 IN IF index = Len(nodes)
                    THEN LET idx == NodeRouteIndex(t, method)
                         IN IF idx = {}
                            THEN IF Len(t.routeKeys) = 0
                                 THEN [kind |-> "notfound", route |-> NoRoute, params |-> EmptyMap,
                                       allow |-> <<>>, middleware |-> mw, pos |-> npos]
                                 ELSE [kind |-> "notallowed", route |-> NoRoute, params |-> EmptyMap,
                                       allow |-> t.routeKeys, middleware |-> mw, pos |-> npos]
                            ELSE LET route == t.routes[CHOOSE i \in idx : TRUE]
                                 IN [kind |-> "route", route |-> route,
                                     params |-> ZipParams(t.paramNames, pv, 1, EmptyMap),
                                     allow |-> <<>>,
                                     middleware |-> mw \o route.middleware, pos |-> npos]
                    ELSE MatchWalk(tree, method, nodes, index + 1, npos, pv, mw)

MatcherMatch(rm, method, path) ==
    MatchWalk(rm.tree, method, PathNodes(path), 1, <<>>, <<>>, rm.tree[<<>>].middleware)

(***************************************************************************)
(* routing.ts: Route; core.ts: Router, App                                 *)
(***************************************************************************)

\* new Route(init): the path is normalised, middleware defaults to [].
\* `via` is a history field (not in the code): the routers the route was
\* included through, outermost first.
NewRoute(method, path, middleware, via) ==
    [method |-> method, path |-> fixPathSlashes(path),
     middleware |-> middleware, via |-> via]

\* new Router({middleware}): rootPath is "/"
NewRouter(middleware) ==
    [rootPath |-> <<"/">>, middleware |-> middleware, routeMatcher |-> NewRouteMatcher]

\* new App({rootPath, middleware, openapiUrl: null}): a Router whose root
\* node carries the app's middleware
NewApp(rootPath, middleware) ==
    [rootPath |-> rootPath, middleware |-> middleware,
     routeMatcher |-> MatcherSet(NewRouteMatcher, NullPath, middleware)]

\* Router.route(method, path, {middleware})
RouterRoute(self, method, path, middleware) ==
    [self EXCEPT !.routeMatcher =
        MatcherPush(self.routeMatcher,
                    NewRoute(method, self.rootPath \o path, middleware, <<>>))]

\* Router.include(prefix, router): for every route of `router`, push a copy
\* under rootPath + prefix + route.path, then set(prefix, router.middleware)
RECURSIVE IncludeLoop(_, _, _, _, _)
IncludeLoop(self, prefix, router, rid, i) ==
    IF i > Len(router.routeMatcher.routes) THEN self
    ELSE LET route == router.routeMatcher.routes[i]
             includeRoute == NewRoute(route.method, self.rootPath \o prefix \o route.path,
                                      route.middleware, <<rid>> \o route.via)
             pushed == MatcherPush(self.routeMatcher, includeRoute)
             attached == MatcherSet(pushed, prefix, router.middleware)
         IN IncludeLoop([self EXCEPT !.routeMatcher = attached], prefix, router, rid, i + 1)

RouterInclude(self, prefix, router, rid) == IncludeLoop(self, prefix, router, rid, 1)

(***************************************************************************)
(* parameters.ts / core.ts: parameter declarations, dependencies, values   *)
(***************************************************************************)
DepIds == {"d1", "d2"}
MiddlewareTags == {"m1", "m2", "m3", "m4"}

\* Values of arguments.  `undefined`, the data a validator yields for a raw
\* input, and the value a dependency handler returns: the n-th invocation of
\* the handler of dependency id within request req returns a fresh value
\* (as the counters of tests/core.setup.ts do).
Undefined == [t |-> "undefined", id |-> "", req |-> 0, n |-> 0]
Data(raw) == [t |-> "data", id |-> raw, req |-> 0, n |-> 0]
DepValue(d, r, n) == [t |-> "dep", id |-> d, req |-> r, n |-> n]

\* Query(schema, {altName}): schema is z.string() or z.string().optional()
Query(name, key, optional) ==
    [name |-> name, location |-> "query", key |-> key, optional |-> optional, dependency |-> ""]

\* Depends(dependency)
Depends(name, d) ==
    [name |-> name, location |-> "@depends", key |-> "", optional |-> FALSE, dependency |-> d]

\* parsers.query: the first value of the key (or undefined) is validated
ParseQuery(decl, queries) ==
    IF decl.key \in DOMAIN queries
    THEN [success |-> TRUE, data |-> Data(queries[decl.key][1])]
    ELSE IF decl.optional THEN [success |-> TRUE, data |-> Undefined]
    ELSE [success |-> FALSE, data |-> Undefined]

EmptyArgs == [k \in {} |-> Undefined]

\* args[name] = value
SetArg(args, name, value) ==
    [k \in (DOMAIN args) \cup {name} |-> IF k = name THEN value ELSE args[k]]

\* a variant that leaves the arguments of the dependency nested
Flatten_Nothing(args, sub) == args

\* for (const [k, v] of Object.entries(sub)) if (args[k] === undefined) args[k] = v
Flatten(args, sub) ==
    [k \in (DOMAIN args) \cup (DOMAIN sub) |->
        IF k \in DOMAIN args /\ args[k] # Undefined THEN args[k]
        ELSE IF k \in DOMAIN sub THEN sub[k]
        ELSE args[k]]

\* the local state of one resolveArgs call: success, args, errors and the
\* position of the loop over Object.entries(parameters)
NewFrame(owner) ==
    [owner |-> owner, idx |-> 1, args |-> EmptyArgs, errors |-> <<>>, success |-> TRUE]

\* a variant of the cache test that never finds an entry
IsCached_Never(cache, dependency, useCache) == FALSE

\* dependency.useCache && cache.get(dependency)
IsCached(cache, dependency, useCache) == useCache /\ dependency \in DOMAIN cache

\* a location other than "@depends": lines 344-354
FrameAfterLeaf(f, decl, parseOut) ==
    IF parseOut.success
    THEN [f EXCEPT !.args = SetArg(f.args, decl.name, parseOut.data), !.idx = f.idx + 1]
    ELSE [f EXCEPT !.success = FALSE,
                   !.errors = Append(f.errors, [location |-> decl.location, name |-> decl.name]),
                   !.idx = f.idx + 1]

\* a variant of the cache hit in which the cached arguments overwrite
FrameAfterCached_Overwrite(f, decl, cached) ==
    [f EXCEPT !.args = [k \in (DOMAIN f.args) \cup (DOMAIN cached.args) \cup {decl.name} |->
                          IF k \in DOMAIN cached.args THEN cached.args[k]
                          ELSE IF k = decl.name THEN cached.value ELSE f.args[k]],
              !.idx = f.idx + 1]

\* a cache hit: lines 320-325
FrameAfterCached(f, decl, cached) ==
    [f EXCEPT !.args = Flatten(SetArg(f.args, decl.name, cached.value), cached.args),
              !.idx = f.idx + 1]

\* a variant that stores the handler's value and flattens nothing
FrameAfterHandle_NoFlatten(f, decl, info, value) ==
    [f EXCEPT !.success = f.success /\ info.success,
              !.args = SetArg(f.args, decl.name, value),
              !.idx = f.idx + 1]

\* the dependency resolved and its handler returned `value`: lines 329-337
FrameAfterHandle(f, decl, info, value) ==
    [f EXCEPT !.success = f.success /\ info.success,
              !.args = Flatten(SetArg(f.args, decl.name, value), info.args),
              !.idx = f.idx + 1]

\* a variant that takes the nested errors over but stays successful
FrameAfterFailure_KeepSuccess(f, info) ==
    [f EXCEPT !.errors = f.errors \o info.errors, !.idx = f.idx + 1]

\* a variant that marks the failure but drops the nested errors
FrameAfterFailure_DropErrors(f, info) ==
    [f EXCEPT !.success = f.success /\ info.success, !.idx = f.idx + 1]

\* the dependency failed to resolve: lines 329, 340-342
FrameAfterFailure(f, info) ==
    [f EXCEPT !.success = f.success /\ info.success,
              !.errors = f.errors \o info.errors,
              !.idx = f.idx + 1]

\* cache.set(dependency, {value, args})
CacheSet(cache, dependency, value, args) ==
    [d \in (DOMAIN cache) \cup {dependency} |->
        IF d = dependency THEN [value |-> value, args |-> args] ELSE cache[d]]

NoCache == [d \in {} |-> [value |-> Undefined, args |-> EmptyArgs]]
NoInfo == [success |-> TRUE, errors |-> <<>>, args |-> EmptyArgs]

(***************************************************************************)
(* State                                                                   *)
(***************************************************************************)
VARIABLES
    app,        \* the App
    routers,    \* the Routers, by name
    phase,      \* "setup" while routes are registered, then "serve"
    nRoutes,    \* number of route() calls made
    nIncludes,  \* number of include() calls made
    mreq,       \* the last request handed to RouteMatcher.match
    mres,       \* what match returned for it
    cfg,        \* the dependencies, the route's parameters and the raw inputs
    pc,         \* per request: where its handling stands
    microtasks, \* per request: its promise jobs, first in first out
    stack,      \* per request: the frames of the nested resolveArgs calls
    cache,      \* per request: the dependency cache of the top-level call
    parseInfo,  \* per request: what the top-level resolveArgs returned
    raised,     \* per request: what a handler threw, if anything
    laters,     \* per request: the callbacks registered with later
    calls,      \* history, per request: the handler invocations
    refs,       \* history, per request: the dependency references processed
    hs          \* per request: the state of its App.handle call

matchVars == <<app, routers, phase, nRoutes, nIncludes, mreq, mres>>
resolveVars == <<pc, microtasks, stack, cache, parseInfo, raised, laters, calls, refs>>
vars == <<matchVars, cfg, resolveVars, hs>>

\* the requests that may be in flight at once
NumReqs == 2
Reqs == 1..NumReqs

NoReq == [method |-> "none", path |-> <<>>]
NoRes == [kind |-> "none", route |-> NoRoute, params |-> EmptyMap,
          allow |-> <<>>, middleware |-> <<>>, pos |-> <<>>]

\* App.handle has not been called: no match, no Response object exists (a
\* Response is named by its position in objs, 0 naming none), nothing was
\* thrown, returned or logged
IdleHandle ==
    [req |-> NoReq, match |-> NoRes, lvl |-> 0, objs |-> <<>>, res |-> 0,
     exc |-> "none", promise |-> 0, terminalRes |-> 0, raisedRes |-> 0, out |-> 0,
     cbLog |-> <<>>, errorCalls |-> 0, routeCalls |-> 0, trace |-> <<>>]

\* no request is being handled
IdleRequests ==
    /\ pc = [r \in Reqs |-> "idle"]
    /\ microtasks = [r \in Reqs |-> <<>>]
    /\ stack = [r \in Reqs |-> <<>>]
    /\ cache = [r \in Reqs |-> NoCache]
    /\ parseInfo = [r \in Reqs |-> NoInfo]
    /\ raised = [r \in Reqs |-> "nothing"]
    /\ laters = [r \in Reqs |-> <<>>]
    /\ calls = [r \in Reqs |-> <<>>]
    /\ refs = [r \in Reqs |-> <<>>]
    /\ hs = [r \in Reqs |-> IdleHandle]

\* an application without parameters or dependencies
NoConfig ==
    [deps |-> [d \in DepIds |-> [useCache |-> TRUE, parameters |-> <<>>,
                                   ret |-> "value", later |-> FALSE]],
     route |-> [parameters |-> <<>>, ret |-> "value"],
     queries |-> [k \in {} |-> <<>>],
     mw |-> [m \in MiddlewareTags |-> "pass"]]

Init ==
    /\ app = NewApp(AppRootPath, AppMiddleware)
    /\ routers = [id \in RouterIds |-> NewRouter(RouterMiddleware(id))]
    /\ phase = "setup"
    /\ nRoutes = 0
    /\ nIncludes = 0
    /\ mreq = NoReq
    /\ mres = NoRes
    /\ cfg = NoConfig
    /\ IdleRequests

\* app.route(method, path, {middleware})
AppRoute(method, path, middleware) ==
    /\ phase = "setup"
    /\ nRoutes < MaxRouteCalls
    /\ app' = RouterRoute(app, method, path, middleware)
    /\ nRoutes' = nRoutes + 1
    /\ UNCHANGED <<routers, phase, nIncludes, mreq, mres, cfg, resolveVars, hs>>

\* router.route(method, path, {middleware})
SubRoute(id, method, path, middleware) ==
    /\ phase = "setup"
    /\ nRoutes < MaxRouteCalls
    /\ routers' = [routers EXCEPT ![id] = RouterRoute(routers[id], method, path, middleware)]
    /\ nRoutes' = nRoutes + 1
    /\ UNCHANGED <<app, phase, nIncludes, mreq, mres, cfg, resolveVars, hs>>

\* app.include(prefix, router)
AppInclude(prefix, id) ==
    /\ phase = "setup"
    /\ nIncludes < MaxIncludes
    /\ app' = RouterInclude(app, prefix, routers[id], id)
    /\ nIncludes' = nIncludes + 1
    /\ UNCHANGED <<routers, phase, nRoutes, mreq, mres, cfg, resolveVars, hs>>

\* r1.include(prefix, r2): a router nested in a router
SubInclude(prefix) ==
    /\ phase = "setup"
    /\ nIncludes < MaxIncludes
    /\ routers' = [routers EXCEPT !["r1"] = RouterInclude(routers["r1"], prefix, routers["r2"], "r2")]
    /\ nIncludes' = nIncludes + 1
    /\ UNCHANGED <<app, phase, nRoutes, mreq, mres, cfg, resolveVars, hs>>

\* registration is over: requests are served from now on
Serve ==
    /\ phase = "setup"
    /\ phase' = "serve"
    /\ UNCHANGED <<app, routers, nRoutes, nIncludes, mreq, mres, cfg, resolveVars, hs>>

\* app.routeMatcher.match(method, path)
Match(method, path) ==
    /\ phase = "serve"
    /\ mreq = NoReq
    /\ mreq' = [method |-> method, path |-> path]
    /\ mres' = MatcherMatch(app.routeMatcher, method, path)
    /\ UNCHANGED <<app, routers, phase, nRoutes, nIncludes, cfg, resolveVars, hs>>

\* the request has been answered
Respond ==
    /\ mreq # NoReq
    /\ mreq' = NoReq
    /\ mres' = NoRes
    /\ UNCHANGED <<app, routers, phase, nRoutes, nIncludes, cfg, resolveVars, hs>>

Next ==
    \/ \E m \in Methods, p \in RoutePaths : AppRoute(m, p, RouteMiddleware(m))
    \/ \E id \in RouterIds, m \in Methods, p \in RoutePaths :
          SubRoute(id, m, p, RouteMiddleware(m))
    \/ \E p \in Prefixes, id \in RouterIds : AppInclude(p, id)
    \/ \E p \in Prefixes : SubInclude(p)
    \/ Serve
    \/ \E m \in ReqMethods, p \in ReqPaths : Match(m, p)
    \/ Respond

Spec == Init /\ [][Next]_vars

(***************************************************************************)
(* parameters.ts: resolveArgs, one step at a time.                         *)
(* Every call of resolveArgs is a frame on the request's stack; a step     *)
(* handles one parameter of the innermost call, or returns from it.  The   *)
(* promise jobs of a request run first in first out: the continuation of   *)
(* the request ("main") and the callbacks registered with later ("cb").   *)
(***************************************************************************)
Main == [kind |-> "main", i |-> 0]
Callback(i) == [kind |-> "cb", i |-> i]

\* the continuation of request r is the next promise job of r
MainTurn(r) == microtasks[r] # <<>> /\ Head(microtasks[r]) = Main

\* the continuation awaits: it is queued again behind the jobs already there
Yield(r) == microtasks' = [microtasks EXCEPT ![r] = Append(Tail(@), Main)]

Parameters(owner) ==
    IF owner = "route" THEN cfg.route.parameters ELSE cfg.deps[owner].parameters

\* a variant in which the top-level calls of all requests use one WeakMap
CacheOf_Shared(r) == 1

\* cache = cache ?? new WeakMap(): the top-level call of each request creates
\* its own WeakMap, named here by the request
CacheOf(r) == r

\* a variant in which every dependency is treated as cached
UsesCache_Always(d) == TRUE

\* dependency.useCache
UsesCache(d) == cfg.deps[d].useCache

Top(r) == stack[r][Len(stack[r])]
Parent(r) == stack[r][Len(stack[r]) - 1]
AtParameter(r) == Top(r).idx <= Len(Parameters(Top(r).owner))
CurDecl(r) == Parameters(Top(r).owner)[Top(r).idx]
\* the parameter of the calling frame whose dependency the innermost call resolves
CallerDecl(r) == Parameters(Parent(r).owner)[Parent(r).idx]
InfoOf(f) == [success |-> f.success, errors |-> f.errors, args |-> f.args]

ReplaceTop(st, f) == [st EXCEPT ![Len(st)] = f]
\* return from the innermost call: its frame goes, the caller's becomes f
PopInto(st, f) == [SubSeq(st, 1, Len(st) - 1) EXCEPT ![Len(st) - 1] = f]

CallCount(r, d) == Cardinality({i \in 1..Len(calls[r]) : calls[r][i].dep = d})

\* resolveArgs(parameters, input) is called without a cache: lines 234-241
BeginResolve(r) ==
    /\ stack' = [stack EXCEPT ![r] = <<NewFrame("route")>>]
    /\ cache' = [cache EXCEPT ![CacheOf(r)] = NoCache]

\* a caller invokes resolveArgs on the route's parameters
StartResolve(r) ==
    /\ pc[r] = "idle"
    /\ pc' = [pc EXCEPT ![r] = "resolve"]
    /\ microtasks' = [microtasks EXCEPT ![r] = <<Main>>]
    /\ BeginResolve(r)
    /\ UNCHANGED <<matchVars, hs, cfg, parseInfo, raised, laters, calls, refs>>

\* a parameter that is not a dependency is parsed and validated
ResolveLeaf(r) ==
    /\ pc[r] = "resolve" /\ MainTurn(r) /\ AtParameter(r)
    /\ CurDecl(r).location # "@depends"
    /\ stack' = [stack EXCEPT ![r] =
                    ReplaceTop(@, FrameAfterLeaf(Top(r), CurDecl(r),
                                                 ParseQuery(CurDecl(r), cfg.queries)))]
    /\ Yield(r)
    /\ UNCHANGED <<matchVars, hs, cfg, pc, cache, parseInfo, raised, laters, calls, refs>>

\* a dependency found in the cache
ResolveCached(r) ==
    /\ pc[r] = "resolve" /\ MainTurn(r) /\ AtParameter(r)
    /\ CurDecl(r).location = "@depends"
    /\ LET d == CurDecl(r).dependency
       IN /\ IsCached(cache[CacheOf(r)], d, UsesCache(d))
          /\ stack' = [stack EXCEPT ![r] =
                          ReplaceTop(@, FrameAfterCached(Top(r), CurDecl(r), cache[CacheOf(r)][d]))]
          /\ refs' = [refs EXCEPT ![r] =
                          Append(@, [dep |-> d, how |-> "cached", value |-> cache[CacheOf(r)][d].value])]
    /\ Yield(r)
    /\ UNCHANGED <<matchVars, hs, cfg, pc, cache, parseInfo, raised, laters, calls>>

\* a dependency not in the cache: resolveArgs(dependency.parameters, input, cache)
ResolveEnter(r) ==
    /\ pc[r] = "resolve" /\ MainTurn(r) /\ AtParameter(r)
    /\ CurDecl(r).location = "@depends"
    /\ LET d == CurDecl(r).dependency
       IN /\ ~IsCached(cache[CacheOf(r)], d, UsesCache(d))
          /\ stack' = [stack EXCEPT ![r] = Append(@, NewFrame(d))]
    /\ Yield(r)
    /\ UNCHANGED <<matchVars, hs, cfg, pc, cache, parseInfo, raised, laters, calls, refs>>

\* the nested call returned success = false: its errors are taken over
DependencyFailed(r) ==
    /\ pc[r] = "resolve" /\ MainTurn(r) /\ ~AtParameter(r)
    /\ Len(stack[r]) > 1
    /\ ~Top(r).success
    /\ stack' = [stack EXCEPT ![r] = PopInto(@, FrameAfterFailure(Parent(r), InfoOf(Top(r))))]
    /\ refs' = [refs EXCEPT ![r] =
                    Append(@, [dep |-> Top(r).owner, how |-> "failed", value |-> Undefined])]
    /\ Yield(r)
    /\ UNCHANGED <<matchVars, hs, cfg, pc, cache, parseInfo, raised, laters, calls>>

\* the nested call returned success = true and dependency.handle returns
DependencyHandle(r) ==
    /\ pc[r] = "resolve" /\ MainTurn(r) /\ ~AtParameter(r)
    /\ Len(stack[r]) > 1
    /\ Top(r).success
    /\ LET d == Top(r).owner
           dep == cfg.deps[d]
           info == InfoOf(Top(r))
           value == IF dep.ret = "value" THEN DepValue(d, r, CallCount(r, d) + 1) ELSE Undefined
       IN /\ dep.ret \in {"value", "undefined"}
          /\ stack' = [stack EXCEPT ![r] =
                          PopInto(@, FrameAfterHandle(Parent(r), CallerDecl(r), info, value))]
          /\ cache' = [cache EXCEPT ![CacheOf(r)] =
                          IF UsesCache(d) THEN CacheSet(@, d, value, info.args) ELSE @]
          /\ calls' = [calls EXCEPT ![r] =
                          Append(@, [dep |-> d, args |-> info.args, value |-> value])]
          /\ laters' = [laters EXCEPT ![r] = IF dep.later THEN Append(@, d) ELSE @]
          /\ refs' = [refs EXCEPT ![r] =
                          Append(@, [dep |-> d, how |-> "handled", value |-> value])]
    /\ Yield(r)
    /\ UNCHANGED <<matchVars, hs, cfg, pc, parseInfo, raised>>

\* the nested call returned success = true and dependency.handle throws
DependencyRaise(r) ==
    /\ pc[r] = "resolve" /\ MainTurn(r) /\ ~AtParameter(r)
    /\ Len(stack[r]) > 1
    /\ Top(r).success
    /\ LET d == Top(r).owner
           dep == cfg.deps[d]
       IN /\ dep.ret \in {"throwResponse", "throwError"}
          /\ calls' = [calls EXCEPT ![r] =
                          Append(@, [dep |-> d, args |-> Top(r).args, value |-> Undefined])]
          /\ laters' = [laters EXCEPT ![r] = IF dep.later THEN Append(@, d) ELSE @]
          /\ raised' = [raised EXCEPT ![r] = dep.ret]
    /\ stack' = [stack EXCEPT ![r] = <<>>]
    /\ pc' = [pc EXCEPT ![r] = "raised"]
    /\ Yield(r)
    /\ UNCHANGED <<matchVars, hs, cfg, cache, parseInfo, refs>>

\* the top-level call returns {success, errors, args}
ResolveDone(r) ==
    /\ pc[r] = "resolve" /\ MainTurn(r) /\ ~AtParameter(r)
    /\ Len(stack[r]) = 1
    /\ parseInfo' = [parseInfo EXCEPT ![r] = InfoOf(Top(r))]
    /\ stack' = [stack EXCEPT ![r] = <<>>]
    /\ pc' = [pc EXCEPT ![r] = "resolved"]
    /\ Yield(r)
    /\ UNCHANGED <<matchVars, hs, cfg, cache, raised, laters, calls, refs>>

ResolveStep(r) ==
    \/ ResolveLeaf(r)
    \/ ResolveCached(r)
    \/ ResolveEnter(r)
    \/ DependencyFailed(r)
    \/ DependencyHandle(r)
    \/ ResolveDone(r)

(***************************************************************************)
(* One call of resolveArgs on every parameter map of a bounded family:     *)
(* dependency d1 declares leaves, d2 declares leaves and Depends(d1), the  *)
(* route declares leaves, Depends(d1) and Depends(d2).  The query string   *)
(* carries k1 and lacks k0, so a leaf on k0 fails validation.              *)
(***************************************************************************)
MaxDepParams == 2
MaxRouteParams == 3

ParamNames ==
    [o \in {"route"} \cup DepIds |->
        IF o = "route" THEN <<"a", "b", "c", "d">>
        ELSE IF o = "d1" THEN <<"e", "f", "g">>
        ELSE <<"h", "i", "j">>]

DeclOf(owner, i, c) ==
    IF c \in DepIds THEN Depends(ParamNames[owner][i], c)
    ELSE Query(ParamNames[owner][i], IF c = "ok" THEN "k1" ELSE "k0", FALSE)

Lists(S, n) == UNION {[1..k -> S] : k \in 0..n}
ParamList(owner, l) == [i \in 1..Len(l) |-> DeclOf(owner, i, l[i])]

PlainDependency(useCache, parameters) ==
    [useCache |-> useCache, parameters |-> parameters, ret |-> "value", later |-> FALSE]

ServingApp ==
    /\ app = NewApp(AppRootPath, AppMiddleware)
    /\ routers = [id \in RouterIds |-> NewRouter(RouterMiddleware(id))]
    /\ phase = "serve"
    /\ nRoutes = 0
    /\ nIncludes = 0
    /\ mreq = NoReq
    /\ mres = NoRes

InitResolve ==
    /\ ServingApp
    /\ IdleRequests
    /\ \E l1 \in Lists({"ok", "bad"}, MaxDepParams),
          l2 \in Lists({"ok", "bad", "d1"}, MaxDepParams),
          lr \in Lists({"ok", "bad", "d1", "d2"}, MaxRouteParams),
          c1 \in BOOLEAN, c2 \in BOOLEAN :
         cfg = [deps |-> [d \in DepIds |->
                            IF d = "d1" THEN PlainDependency(c1, ParamList("d1", l1))
                            ELSE PlainDependency(c2, ParamList("d2", l2))],
                route |-> [parameters |-> ParamList("route", lr), ret |-> "value"],
                queries |-> ("k1" :> <<"1">>),
                mw |-> [m \in MiddlewareTags |-> "pass"]]

NextResolve ==
    \/ StartResolve(1)
    \/ ResolveLeaf(1)
    \/ ResolveCached(1)
    \/ ResolveEnter(1)
    \/ DependencyFailed(1)
    \/ DependencyHandle(1)
    \/ ResolveDone(1)

SpecResolve == InitResolve /\ [][NextResolve]_vars

(***************************************************************************)
(* One call of resolveArgs on parameter maps whose dependencies declare a  *)
(* parameter of the same name: d1 declares e on the query key k1, d2       *)
(* declares e on the query key k2 and may also depend on d1; the route     *)
(* depends on d1 and d2 in any order.  The query string carries k1=1 and   *)
(* k2=2.                                                                   *)
(***************************************************************************)
MaxBranches == 3

CollidingQueries == ("k1" :> <<"1">>) @@ ("k2" :> <<"2">>)

InitCollide ==
    /\ ServingApp
    /\ IdleRequests
    /\ \E lr \in Lists(DepIds, MaxBranches), nested \in BOOLEAN,
          c1 \in BOOLEAN, c2 \in BOOLEAN :
         cfg = [deps |-> [d \in DepIds |->
                            IF d = "d1"
                            THEN PlainDependency(c1, <<Query("e", "k1", FALSE)>>)
                            ELSE PlainDependency(c2,
                                    <<Query("e", "k2", FALSE)>> \o
                                    (IF nested THEN <<Depends("h", "d1")>> ELSE <<>>))],
                route |-> [parameters |-> ParamList("route", lr), ret |-> "value"],
                queries |-> CollidingQueries,
                mw |-> [m \in MiddlewareTags |-> "pass"]]

NextCollide ==
    \/ StartResolve(1)
    \/ ResolveLeaf(1)
    \/ ResolveCached(1)
    \/ ResolveEnter(1)
    \/ DependencyHandle(1)
    \/ ResolveDone(1)

SpecCollide == InitCollide /\ [][NextCollide]_vars

(***************************************************************************)
(* core.ts: App.handle.                                                    *)
(* The middleware chain is entered from middleware[0] inwards; the         *)
(* innermost next is the terminal continuation, which resolves the route's *)
(* parameters, invokes the route handler and resolves the promise the      *)
(* later callbacks chain off; the chain then unwinds outwards.             *)
(***************************************************************************)

\* a Response object as created: no header appended by a middleware yet
NewResponse(status, body, detail) ==
    [status |-> status, body |-> body, detail |-> detail, hdr |-> <<>>]

\* res.headers.set("X-M", (res.headers.get("X-M") || "") + tag)
AppendHeader(res, tag) == [res EXCEPT !.hdr = Append(@, tag)]

\* the position the next created Response gets in objs
NewId(h) == Len(h.objs) + 1

\* a variant that runs the chain from the last middleware outwards
MiddlewareAt_Reversed(middleware, i) == middleware[Len(middleware) + 1 - i]

\* a variant in which every next leads to the first middleware again
MiddlewareAt_First(middleware, i) == middleware[1]

\* next at depth i - 1 is () => middleware[i].handle(baseArgs, nextMap[i]),
\* counting from 1
MiddlewareAt(middleware, i) == middleware[i]

\* a variant of the catch blocks in which whatever is thrown counts as a Response
IsResponse_Always(e) == TRUE

\* a variant of the catch blocks in which nothing thrown counts as a Response
IsResponse_Never(e) == FALSE

\* e instanceof Response
IsResponse(e) == e = "throwResponse"

\* a variant that invokes the route handler whatever resolveArgs returned
InvokesHandler_Always(info) == TRUE

\* if (parseInfo.success) res = await route.handle(...)
InvokesHandler(info) == info.success

\* a variant in which every middleware awaits next
CallsNext_Always(kind) == TRUE

\* whether a middleware of this kind reaches its `await next()`
CallsNext(kind) == kind \in {"pass", "replace"}

Event(ev, m) == [ev |-> ev, mw |-> m]

\* a variant in which fulfilling the promise queues no reaction
ResolveLater_None(r) == <<>>

\* a variant that queues the reactions last registered first
ResolveLater_Reversed(r) == [i \in 1..Len(laters[r]) |-> Callback(Len(laters[r]) + 1 - i)]

\* resolve(res): the promise is fulfilled and one job per callback registered
\* with later is queued, in registration order, ahead of whatever the
\* running continuation queues when it returns
ResolveLater(r) == [i \in 1..Len(laters[r]) |-> Callback(i)]

\* app.handle({req}): the route is matched; a TypeError of match is caught
\* by the outer catch
HandleStart(r, method, path) ==
    /\ phase = "serve"
    /\ pc[r] = "idle"
    /\ LET m == MatcherMatch(app.routeMatcher, method, path)
       IN /\ hs' = [hs EXCEPT ![r] =
                      [@ EXCEPT !.req = [method |-> method, path |-> path],
                                !.match = m,
                                !.exc = IF m.kind = "throw" THEN "throwError" ELSE "none"]]
          /\ pc' = [pc EXCEPT ![r] = IF m.kind = "throw" THEN "unwind" ELSE "chain"]
    /\ microtasks' = [microtasks EXCEPT ![r] = <<Main>>]
    /\ UNCHANGED <<matchVars, cfg, stack, cache, parseInfo, raised, laters, calls, refs>>

\* a middleware is invoked and awaits next()
MiddlewareCallNext(r) ==
    /\ pc[r] = "chain" /\ MainTurn(r)
    /\ hs[r].lvl < Len(hs[r].match.middleware)
    /\ LET m == MiddlewareAt(hs[r].match.middleware, hs[r].lvl + 1)
       IN /\ CallsNext(cfg.mw[m])
          /\ hs' = [hs EXCEPT ![r] =
                      [@ EXCEPT !.lvl = @ + 1, !.trace = Append(@, Event("enter", m))]]
    /\ Yield(r)
    /\ UNCHANGED <<matchVars, cfg, pc, stack, cache, parseInfo, raised, laters, calls, refs>>

\* a middleware is invoked and returns or throws without calling next
MiddlewareShortCircuit(r) ==
    /\ pc[r] = "chain" /\ MainTurn(r)
    /\ hs[r].lvl < Len(hs[r].match.middleware)
    /\ LET m == MiddlewareAt(hs[r].match.middleware, hs[r].lvl + 1)
           k == cfg.mw[m]
           h == hs[r]
       IN /\ ~CallsNext(k)
          /\ hs' = [hs EXCEPT ![r] =
                      [@ EXCEPT !.trace = @ \o <<Event("enter", m), Event("exit", m)>>,
                                !.objs = IF k = "throwError" THEN @
                                         ELSE Append(@, NewResponse(IF k = "short" THEN 400 ELSE 401,
                                                                    m, <<>>)),
                                !.res = IF k = "throwError" THEN 0 ELSE NewId(h),
                                !.exc = IF k = "short" THEN "none" ELSE k]]
    /\ pc' = [pc EXCEPT ![r] = "unwind"]
    /\ Yield(r)
    /\ UNCHANGED <<matchVars, cfg, stack, cache, parseInfo, raised, laters, calls, refs>>

\* the innermost next when no route matched: 404, or 405 with the Allow header
TerminalNoRoute(r) ==
    /\ pc[r] = "chain" /\ MainTurn(r)
    /\ hs[r].lvl = Len(hs[r].match.middleware)
    /\ hs[r].match.kind \in {"notfound", "notallowed"}
    /\ LET h == hs[r]
           res == IF h.match.kind = "notfound"
                  THEN NewResponse(404, "Not Found", <<>>)
                  ELSE NewResponse(405, "Method Not Allowed", h.match.allow)
       IN hs' = [hs EXCEPT ![r] =
                   [@ EXCEPT !.objs = Append(@, res), !.res = NewId(h),
                             !.terminalRes = NewId(h),
                             !.trace = Append(@, Event("terminal", ""))]]
    /\ pc' = [pc EXCEPT ![r] = "unwind"]
    /\ Yield(r)
    /\ UNCHANGED <<matchVars, cfg, stack, cache, parseInfo, raised, laters, calls, refs>>

\* the innermost next of a matched route: createResolveLater(), resolveArgs(...)
TerminalStart(r) ==
    /\ pc[r] = "chain" /\ MainTurn(r)
    /\ hs[r].lvl = Len(hs[r].match.middleware)
    /\ hs[r].match.kind = "route"
    /\ hs' = [hs EXCEPT ![r] = [@ EXCEPT !.trace = Append(@, Event("terminal", ""))]]
    /\ BeginResolve(r)
    /\ pc' = [pc EXCEPT ![r] = "resolve"]
    /\ Yield(r)
    /\ UNCHANGED <<matchVars, cfg, parseInfo, raised, laters, calls, refs>>

\* resolveArgs succeeded and route.handle returns: the result is wrapped in
\* the response class, resolve(res), return res
RouteHandle(r) ==
    /\ pc[r] = "resolved" /\ MainTurn(r)
    /\ InvokesHandler(parseInfo[r])
    /\ cfg.route.ret = "value"
    /\ LET h == hs[r]
       IN hs' = [hs EXCEPT ![r] =
                   [@ EXCEPT !.objs = Append(@, NewResponse(200, "handler", <<>>)),
                             !.res = NewId(h), !.terminalRes = NewId(h),
                             !.promise = NewId(h), !.routeCalls = @ + 1]]
    /\ microtasks' = [microtasks EXCEPT ![r] = Tail(@) \o ResolveLater(r) \o <<Main>>]
    /\ pc' = [pc EXCEPT ![r] = "unwind"]
    /\ UNCHANGED <<matchVars, cfg, stack, cache, parseInfo, raised, laters, calls, refs>>

\* resolveArgs succeeded and route.handle throws
RouteRaise(r) ==
    /\ pc[r] = "resolved" /\ MainTurn(r)
    /\ InvokesHandler(parseInfo[r])
    /\ cfg.route.ret \in {"throwResponse", "throwError"}
    /\ hs' = [hs EXCEPT ![r] = [@ EXCEPT !.routeCalls = @ + 1]]
    /\ raised' = [raised EXCEPT ![r] = cfg.route.ret]
    /\ pc' = [pc EXCEPT ![r] = "raised"]
    /\ Yield(r)
    /\ UNCHANGED <<matchVars, cfg, stack, cache, parseInfo, laters, calls, refs>>

\* resolveArgs failed: new JSONResponse({detail: parseInfo.errors}, {status: 422}),
\* resolve(res), return res
RespondInvalid(r) ==
    /\ pc[r] = "resolved" /\ MainTurn(r)
    /\ ~InvokesHandler(parseInfo[r])
    /\ LET h == hs[r]
       IN hs' = [hs EXCEPT ![r] =
                   [@ EXCEPT !.objs = Append(@, NewResponse(422, "detail", parseInfo[r].errors)),
                             !.res = NewId(h), !.terminalRes = NewId(h),
                             !.promise = NewId(h)]]
    /\ microtasks' = [microtasks EXCEPT ![r] = Tail(@) \o ResolveLater(r) \o <<Main>>]
    /\ pc' = [pc EXCEPT ![r] = "unwind"]
    /\ UNCHANGED <<matchVars, cfg, stack, cache, parseInfo, raised, laters, calls, refs>>

\* the catch of the terminal continuation: a thrown Response is resolved and
\* returned, anything else is thrown on
TerminalCatch(r) ==
    /\ pc[r] = "raised" /\ MainTurn(r)
    /\ LET h == hs[r]
           isRes == IsResponse(raised[r])
           \* the Response object the handler created and threw
           thrown == NewResponse(403, "thrown", <<>>)
       IN /\ hs' = [hs EXCEPT ![r] =
                      IF raised[r] = "throwResponse"
                      THEN [@ EXCEPT !.objs = Append(@, thrown),
                                     !.raisedRes = NewId(h),
                                     !.res = NewId(h),
                                     !.terminalRes = IF isRes THEN NewId(h) ELSE @,
                                     !.promise = IF isRes THEN NewId(h) ELSE @,
                                     !.exc = IF isRes THEN "none" ELSE raised[r]]
                      ELSE [@ EXCEPT !.exc = raised[r]]]
          /\ microtasks' = [microtasks EXCEPT ![r] =
                              Tail(@) \o (IF isRes THEN ResolveLater(r) ELSE <<>>) \o <<Main>>]
    /\ pc' = [pc EXCEPT ![r] = "unwind"]
    /\ UNCHANGED <<matchVars, cfg, stack, cache, parseInfo, raised, laters, calls, refs>>

\* a callback registered with later is run as a reaction of the promise
RunCallback(r) ==
    /\ microtasks[r] # <<>>
    /\ Head(microtasks[r]).kind = "cb"
    /\ LET h == hs[r]
           i == Head(microtasks[r]).i
       IN hs' = [hs EXCEPT ![r] =
                   [@ EXCEPT !.cbLog = Append(@, [dep |-> laters[r][i],
                                                  res |-> h.promise,
                                                  seen |-> h.objs[h.promise],
                                                  delivered |-> pc[r] = "delivered"])]]
    /\ microtasks' = [microtasks EXCEPT ![r] = Tail(@)]
    /\ UNCHANGED <<matchVars, cfg, pc, stack, cache, parseInfo, raised, laters, calls, refs>>

\* next() returned or threw inside a middleware that awaited it: the
\* middleware post-processes the response and returns it; an exception
\* passes through it
MiddlewareExit(r) ==
    /\ pc[r] = "unwind" /\ MainTurn(r)
    /\ hs[r].lvl > 0
    /\ LET h == hs[r]
           m == MiddlewareAt(h.match.middleware, h.lvl)
       IN hs' = [hs EXCEPT ![r] =
                   IF h.exc # "none"
                   THEN [@ EXCEPT !.lvl = @ - 1, !.trace = Append(@, Event("exit", m))]
                   ELSE IF cfg.mw[m] = "replace"
                   THEN [@ EXCEPT !.lvl = @ - 1, !.trace = Append(@, Event("exit", m)),
                                  \* a new Response object built from the one received
                                  !.objs = Append(@, AppendHeader(h.objs[h.res], m)),
                                  !.res = NewId(h)]
                   ELSE [@ EXCEPT !.lvl = @ - 1, !.trace = Append(@, Event("exit", m)),
                                  !.objs = [@ EXCEPT ![h.res] = AppendHeader(@, m)]]]
    /\ Yield(r)
    /\ UNCHANGED <<matchVars, cfg, pc, stack, cache, parseInfo, raised, laters, calls, refs>>

\* return await next(), or the outer catch: a thrown Response is returned,
\* anything else goes to the error handler, which answers 500
Deliver(r) ==
    /\ pc[r] = "unwind" /\ MainTurn(r)
    /\ hs[r].lvl = 0
    /\ LET h == hs[r]
       IN hs' = [hs EXCEPT ![r] =
                   IF h.exc = "none" \/ IsResponse(h.exc)
                   THEN [@ EXCEPT !.out = h.res]
                   ELSE [@ EXCEPT !.objs = Append(@, NewResponse(500, "Internal Server Error", <<>>)),
                                  !.out = NewId(h), !.errorCalls = @ + 1]]
    /\ microtasks' = [microtasks EXCEPT ![r] = Tail(@)]
    /\ pc' = [pc EXCEPT ![r] = "delivered"]
    /\ UNCHANGED <<matchVars, cfg, stack, cache, parseInfo, raised, laters, calls, refs>>

(***************************************************************************)
(* App.handle on an application shaped like appMMerge of the tests: the    *)
(* App carries m1, a router with m2 is included under /a and holds a GET   *)
(* route /a with m3, whose parameters, dependencies and handler are drawn  *)
(* from a bounded family, as are the behaviours of the middleware:         *)
(*   pass          awaits next, appends its tag to the header, returns it  *)
(*   replace       awaits next, returns a new Response built from it       *)
(*   short         returns a Response without calling next                 *)
(*   throwResponse, throwError    throws without calling next              *)
(* A handler returns a value, throws a Response or throws an Error.  The   *)
(* requests share nothing but the App, which does not change while it      *)
(* serves, and are handled one after the other.                            *)
(***************************************************************************)
HandleRouter == RouterRoute(NewRouter(RouterMiddleware("r1")), "GET", PA, <<"m3">>)
HandleApp == RouterInclude(NewApp(AppRootPath, AppMiddleware), PA, HandleRouter, "r1")

HandleRequests ==
    {[method |-> "GET", path |-> PAA], [method |-> "POST", path |-> PAA],
     [method |-> "GET", path |-> PB], [method |-> "GET", path |-> PValueOf]}

Outcomes == {"value", "throwResponse", "throwError"}

InitHandle ==
    /\ app = HandleApp
    /\ routers = [id \in RouterIds |->
                    IF id = "r1" THEN HandleRouter ELSE NewRouter(RouterMiddleware(id))]
    /\ phase = "serve"
    /\ nRoutes = 1
    /\ nIncludes = 1
    /\ mreq = NoReq
    /\ mres = NoRes
    /\ IdleRequests
    /\ \E k1 \in {"pass", "replace"},
          k2 \in {"pass", "short", "throwResponse", "throwError"},
          l1 \in {<<>>, <<"bad">>},
          lr \in {<<>>, <<"d1">>, <<"d2", "d1">>, <<"bad", "d1">>},
          o1 \in Outcomes, o \in Outcomes :
         cfg = [deps |-> [d \in DepIds |->
                            IF d = "d1"
                            THEN [useCache |-> TRUE, parameters |-> ParamList("d1", l1),
                                  ret |-> o1, later |-> TRUE]
                            ELSE [useCache |-> TRUE, parameters |-> ParamList("d2", <<"d1">>),
                                  ret |-> "value", later |-> TRUE]],
                route |-> [parameters |-> ParamList("route", lr), ret |-> o],
                queries |-> ("k1" :> <<"1">>),
                mw |-> [m \in MiddlewareTags |->
                          IF m = "m1" THEN k1 ELSE IF m = "m2" THEN k2 ELSE "pass"]]

NextHandle ==
    \/ \E r \in Reqs, q \in HandleRequests :
          /\ \A o \in Reqs : o < r => pc[o] = "delivered"
          /\ HandleStart(r, q.method, q.path)
    \/ \E r \in Reqs : MiddlewareCallNext(r)
    \/ \E r \in Reqs : MiddlewareShortCircuit(r)
    \/ \E r \in Reqs : TerminalNoRoute(r)
    \/ \E r \in Reqs : TerminalStart(r)
    \/ \E r \in Reqs : ResolveLeaf(r)
    \/ \E r \in Reqs : ResolveCached(r)
    \/ \E r \in Reqs : ResolveEnter(r)
    \/ \E r \in Reqs : DependencyFailed(r)
    \/ \E r \in Reqs : DependencyHandle(r)
    \/ \E r \in Reqs : DependencyRaise(r)
    \/ \E r \in Reqs : ResolveDone(r)
    \/ \E r \in Reqs : RouteHandle(r)
    \/ \E r \in Reqs : RouteRaise(r)
    \/ \E r \in Reqs : RespondInvalid(r)
    \/ \E r \in Reqs : TerminalCatch(r)
    \/ \E r \in Reqs : RunCallback(r)
    \/ \E r \in Reqs : MiddlewareExit(r)
    \/ \E r \in Reqs : Deliver(r)

SpecHandle == InitHandle /\ [][NextHandle]_vars

\* what the event loop runs for a request that App.handle was called with:
\* the continuations and reaction jobs in its queue
HandleStep(r) ==
    \/ MiddlewareCallNext(r)
    \/ MiddlewareShortCircuit(r)
    \/ TerminalNoRoute(r)
    \/ TerminalStart(r)
    \/ ResolveLeaf(r)
    \/ ResolveCached(r)
    \/ ResolveEnter(r)
    \/ DependencyFailed(r)
    \/ DependencyHandle(r)
    \/ DependencyRaise(r)
    \/ ResolveDone(r)
    \/ RouteHandle(r)
    \/ RouteRaise(r)
    \/ RespondInvalid(r)
    \/ TerminalCatch(r)
    \/ RunCallback(r)
    \/ MiddlewareExit(r)
    \/ Deliver(r)

\* one call of App.handle, with any of the requests
NextTerminate ==
    \/ \E q \in HandleRequests : HandleStart(1, q.method, q.path)
    \/ HandleStep(1)

\* the event loop runs every queued job: a call whose queue is not empty is
\* not left waiting forever.  Whether App.handle is called at all is up to
\* the caller and carries no fairness.
SpecTerminate == InitHandle /\ [][NextTerminate]_vars /\ WF_vars(HandleStep(1))

(***************************************************************************)
(* Several App.handle calls on the same App, interleaved at their awaits:  *)
(* any request may start while others are in flight and each step of a     *)
(* request is one turn of its continuation.  The route depends on the      *)
(* cached dependency d1 (one query parameter, registers a later callback)  *)
(* directly and through d2.                                                *)
(***************************************************************************)
InitConcurrent ==
    /\ app = HandleApp
    /\ routers = [id \in RouterIds |->
                    IF id = "r1" THEN HandleRouter ELSE NewRouter(RouterMiddleware(id))]
    /\ phase = "serve"
    /\ nRoutes = 1
    /\ nIncludes = 1
    /\ mreq = NoReq
    /\ mres = NoRes
    /\ IdleRequests
    /\ \E lr \in {<<"d1", "d1">>, <<"d2", "d1">>}, l2 \in BOOLEAN :
         cfg = [deps |-> [d \in DepIds |->
                            IF d = "d1"
                            THEN [useCache |-> TRUE, parameters |-> ParamList("d1", <<"ok">>),
                                  ret |-> "value", later |-> TRUE]
                            ELSE [useCache |-> TRUE, parameters |-> ParamList("d2", <<"d1">>),
                                  ret |-> "value", later |-> l2]],
                route |-> [parameters |-> ParamList("route", lr), ret |-> "value"],
                queries |-> ("k1" :> <<"1">>),
                mw |-> [m \in MiddlewareTags |-> "pass"]]

NextConcurrent ==
    \/ \E r \in Reqs : HandleStart(r, "GET", PAA)
    \/ \E r \in Reqs : MiddlewareCallNext(r)
    \/ \E r \in Reqs : TerminalStart(r)
    \/ \E r \in Reqs : ResolveLeaf(r)
    \/ \E r \in Reqs : ResolveCached(r)
    \/ \E r \in Reqs : ResolveEnter(r)
    \/ \E r \in Reqs : DependencyHandle(r)
    \/ \E r \in Reqs : ResolveDone(r)
    \/ \E r \in Reqs : RouteHandle(r)
    \/ \E r \in Reqs : RunCallback(r)
    \/ \E r \in Reqs : MiddlewareExit(r)
    \/ \E r \in Reqs : Deliver(r)

SpecConcurrent == InitConcurrent /\ [][NextConcurrent]_vars

(***************************************************************************)
(* helpers.ts: createResolveLater used on its own, as tests/helpers.test.ts *)
(* does: every slot holds one [resolve, later] pair; the script calls      *)
(* later(fn) and resolve(new Response()) in any order and any number of    *)
(* times, and the reactions run as promise jobs.                           *)
(***************************************************************************)
MaxCallbacks == 3
MaxResolveCalls == 2

CallbackNames == <<"f1", "f2", "f3", "f4", "f5">>

\* the resolve calls made on the pair of slot r
ResolveCalls(r) == {p \in 1..Len(hs[r].trace) : hs[r].trace[p].ev = "resolve"}

\* later(fn): promise.then(fn); on a promise already fulfilled the reaction
\* job is queued at once
LaterCall(r) ==
    /\ pc[r] = "idle"
    /\ Len(laters[r]) < MaxCallbacks
    /\ laters' = [laters EXCEPT ![r] = Append(@, CallbackNames[Len(@) + 1])]
    /\ microtasks' = [microtasks EXCEPT ![r] =
                        IF hs[r].promise # 0 THEN Append(@, Callback(Len(laters[r]) + 1)) ELSE @]
    /\ UNCHANGED <<matchVars, hs, cfg, pc, stack, cache, parseInfo, raised, calls, refs>>

\* resolve(new Response()): the first call fulfils the promise and queues the
\* reactions registered so far; a later call has no effect on the promise
ResolveCall(r) ==
    /\ pc[r] = "idle"
    /\ Cardinality(ResolveCalls(r)) < MaxResolveCalls
    /\ LET h == hs[r]
       IN hs' = [hs EXCEPT ![r] =
                   [@ EXCEPT !.objs = Append(@, NewResponse(200, "", <<>>)),
                             !.trace = Append(@, Event("resolve", "")),
                             !.promise = IF @ = 0 THEN NewId(h) ELSE @]]
    /\ microtasks' = [microtasks EXCEPT ![r] =
                        IF hs[r].promise = 0 THEN @ \o ResolveLater(r) ELSE @]
    /\ UNCHANGED <<matchVars, cfg, pc, stack, cache, parseInfo, raised, laters, calls, refs>>

InitLater ==
    /\ ServingApp
    /\ IdleRequests
    /\ cfg = NoConfig

NextLater ==
    \/ \E r \in Reqs : LaterCall(r)
    \/ \E r \in Reqs : ResolveCall(r)
    \/ \E r \in Reqs : RunCallback(r)

SpecLater == InitLater /\ [][NextLater]_vars

(***************************************************************************)
(* A parameter map that declares a name which a dependency of the same map *)
(* flattens up: e is declared by the route (a required query parameter     *)
(* that is present, an optional one that is absent, or a reference to d1)  *)
(* and by d1, whose handler returns a value or undefined.                  *)
(***************************************************************************)
MaxShadowParams == 3

ShadowQueries == ("k1" :> <<"1">>) @@ ("k3" :> <<"3">>)

ShadowDecl(c) ==
    CASE c = "own" -> Query("e", "k3", FALSE)
      [] c = "opt" -> Query("e", "k0", TRUE)
      [] c = "depE" -> Depends("e", "d1")
      [] c = "depA" -> Depends("a", "d1")
      [] c = "depB" -> Depends("b", "d1")

\* the keys of an object literal are distinct
DistinctNames(l) ==
    \A i, j \in 1..Len(l) : i # j => ShadowDecl(l[i]).name # ShadowDecl(l[j]).name

InitShadow ==
    /\ ServingApp
    /\ IdleRequests
    /\ \E lr \in {l \in Lists({"own", "opt", "depE", "depA", "depB"}, MaxShadowParams) :
                    DistinctNames(l)},
          ret \in {"value", "undefined"} :
         cfg = [deps |-> [d \in DepIds |->
                            IF d = "d1"
                            THEN [PlainDependency(TRUE, <<Query("e", "k1", FALSE)>>)
                                     EXCEPT !.ret = ret]
                            ELSE PlainDependency(TRUE, <<>>)],
                route |-> [parameters |-> [i \in 1..Len(lr) |-> ShadowDecl(lr[i])],
                           ret |-> "value"],
                queries |-> ShadowQueries,
                mw |-> [m \in MiddlewareTags |-> "pass"]]

SpecShadow == InitShadow /\ [][NextCollide]_vars

(***************************************************************************)
(* Route construction over raw path strings: new Route({path}) for every   *)
(* string of slashes and letters up to MaxRawLen (the strings that          *)
(* rootPath + path and rootPath + prefix + route.path produce).            *)
(***************************************************************************)
MaxRawLen == 6
RawPaths == Lists({"/", "a"}, MaxRawLen)

InitSlashes ==
    /\ app = NewApp(AppRootPath, AppMiddleware)
    /\ routers = [id \in RouterIds |-> NewRouter(RouterMiddleware(id))]
    /\ phase = "setup"
    /\ nRoutes = 0
    /\ nIncludes = 0
    /\ \E path \in RawPaths : mreq = [method |-> "GET", path |-> path]
    /\ mres = NoRes
    /\ cfg = NoConfig
    /\ IdleRequests

\* new Route({method, path, ...})
RouteConstruct ==
    /\ phase = "setup"
    /\ phase' = "constructed"
    /\ mres' = [NoRes EXCEPT !.kind = "route",
                             !.route = NewRoute(mreq.method, mreq.path, <<>>, <<>>)]
    /\ UNCHANGED <<app, routers, nRoutes, nIncludes, mreq, cfg, resolveVars, hs>>

NextSlashes == RouteConstruct

SpecSlashes == InitSlashes /\ [][NextSlashes]_vars

(***************************************************************************)
(* parseCookie over raw Cookie headers.  The characters are a name/value   *)
(* character that is also a hex digit, the two separators, the double      *)
(* quote, the blank and the percent sign.                                  *)
(***************************************************************************)
MaxHeaderLen == 6
CookieChars == {"3", "=", ";", "\"", " ", "%"}
CookieHeaders == Lists(CookieChars, MaxHeaderLen)

\* String.prototype.split(sep) for a one-character separator
RECURSIVE Split(_, _)
Split(s, sep) ==
    IF \A i \in 1..Len(s) : s[i] # sep THEN <<s>>
    ELSE LET k == CHOOSE i \in 1..Len(s) : s[i] = sep /\ \A j \in 1..(i - 1) : s[j] # sep
         IN <<SubSeq(s, 1, k - 1)>> \o Split(SubSeq(s, k + 1, Len(s)), sep)

\* String.prototype.trim()
Trim(s) ==
    LET ink == {i \in 1..Len(s) : s[i] # " "}
    IN IF ink = {} THEN <<>>
       ELSE SubSeq(s, CHOOSE i \in ink : \A j \in ink : i <= j,
                      CHOOSE i \in ink : \A j \in ink : i >= j)

\* a variant that finds the last occurrence
IndexOf_Last(s, c) ==
    IF \A i \in 1..Len(s) : s[i] # c THEN -1
    ELSE (CHOOSE i \in 1..Len(s) : s[i] = c /\ \A j \in (i + 1)..Len(s) : s[j] # c) - 1

\* String.prototype.indexOf(c): zero-based, -1 when absent
IndexOf(s, c) ==
    IF \A i \in 1..Len(s) : s[i] # c THEN -1
    ELSE (CHOOSE i \in 1..Len(s) : s[i] = c /\ \A j \in 1..(i - 1) : s[j] # c) - 1

\* the value of a hex digit, -1 for any other character
HexValue(c) == IF c = "3" THEN 3 ELSE -1

\* decodeURIComponent: every %XX is a byte; %33 is the one escape these
\* characters can spell, the byte of "3".  A "%" not followed by two hex
\* digits throws URIError.
RECURSIVE DecodeFrom(_, _)
DecodeFrom(v, i) ==
    IF i > Len(v) THEN [ok |-> TRUE, out |-> <<>>]
    ELSE IF v[i] # "%"
         THEN LET rest == DecodeFrom(v, i + 1)
              IN [ok |-> rest.ok, out |-> <<v[i]>> \o rest.out]
    ELSE IF i + 2 <= Len(v) /\ HexValue(v[i + 1]) >= 0 /\ HexValue(v[i + 2]) >= 0
         THEN LET rest == DecodeFrom(v, i + 3)
              IN [ok |-> rest.ok /\ 16 * HexValue(v[i + 1]) + HexValue(v[i + 2]) = 51,
                  out |-> <<"3">> \o rest.out]
    ELSE [ok |-> FALSE, out |-> <<>>]

decodeURIComponent(v) == DecodeFrom(v, 1)

\* cookies[name] = value
CookieSet(cookies, name, value) ==
    [n \in DOMAIN cookies \cup {name} |-> IF n = name THEN value ELSE cookies[n]]

\* the body of the loop of parseCookie, on a trimmed pair
CookiePair(cookies, pair) ==
    LET eqIndex == IndexOf(pair, "=")
        name == Trim(SubSeq(pair, 1, eqIndex))
        value == Trim(SubSeq(pair, eqIndex + 2, Len(pair)))
        unquoted == IF Len(value) > 0 /\ value[1] = "\"" /\ value[Len(value)] = "\""
                    THEN SubSeq(value, 2, Len(value) - 1)
                    ELSE value
        decoded == decodeURIComponent(unquoted)
    IN IF pair = <<>> THEN cookies
       ELSE IF eqIndex < 0 THEN cookies
       ELSE CookieSet(cookies, name, IF decoded.ok THEN decoded.out ELSE unquoted)

RECURSIVE CookieLoop(_, _, _)
CookieLoop(cookies, pairs, i) ==
    IF i > Len(pairs) THEN cookies
    ELSE CookieLoop(CookiePair(cookies, Trim(pairs[i])), pairs, i + 1)

parseCookie(cookieHeader) ==
    IF cookieHeader = <<>> THEN EmptyMap
    ELSE CookieLoop(EmptyMap, Split(cookieHeader, ";"), 1)

InitCookie ==
    /\ app = NewApp(AppRootPath, AppMiddleware)
    /\ routers = [id \in RouterIds |-> NewRouter(RouterMiddleware(id))]
    /\ phase = "serve"
    /\ nRoutes = 0
    /\ nIncludes = 0
    /\ \E h \in CookieHeaders : mreq = [method |-> "GET", path |-> PRoot, cookie |-> h]
    /\ mres = NoRes
    /\ cfg = NoConfig
    /\ IdleRequests

\* the Cookie header of the request is parsed
ParseCookieHeader ==
    /\ phase = "serve"
    /\ phase' = "parsed"
    /\ mres' = [NoRes EXCEPT !.kind = "cookies", !.params = parseCookie(mreq.cookie)]
    /\ UNCHANGED <<app, routers, nRoutes, nIncludes, mreq, cfg, resolveVars, hs>>

NextCookie == ParseCookieHeader

SpecCookie == InitCookie /\ [][NextCookie]_vars

(***************************************************************************)
(* What was registered, read from the list of pushed routes               *)
(***************************************************************************)
Range(f) == {f[i] : i \in DOMAIN f}

\* the trie position a registered path leads to: placeholders become "{}"
KeyPath(path) ==
    LET nodes == PathNodes(path)
    IN [i \in 1..Len(nodes) |-> IF IsPlaceholder(nodes[i]) THEN WildKey ELSE nodes[i]]

\* the placeholder names of a registered path, in order
PlaceholderNames(path) ==
    LET nodes == PathNodes(path)
        F[i \in 0..Len(nodes)] ==
            IF i = 0 THEN <<>>
            ELSE IF IsPlaceholder(nodes[i]) THEN Append(F[i - 1], PlaceholderName(nodes[i]))
            ELSE F[i - 1]
    IN F[Len(nodes)]

\* the request segments at the wildcard positions of a registered path
WildcardSegments(path, reqPath) ==
    LET nodes == PathNodes(path)
        segs == PathNodes(reqPath)
        F[i \in 0..Len(nodes)] ==
            IF i = 0 THEN <<>>
            ELSE IF IsPlaceholder(nodes[i]) THEN Append(F[i - 1], segs[i])
            ELSE F[i - 1]
    IN F[Len(nodes)]

AppRoutes == Range(app.routeMatcher.routes)

\* the methods of the routes pushed to the App under a trie position
RegisteredMethods(pos) == {r.method : r \in {q \in AppRoutes : KeyPath(q.path) = pos}}

Matched == mres.kind # "none"
ReqNodes == PathNodes(mreq.path)
\* the walk consumed every segment of the request path
ReachedTerminal == mres.kind \in {"route", "notallowed", "notfound"} /\ Len(mres.pos) = Len(ReqNodes)

C7_MethodNotAllowedExact ==
    ReachedTerminal =>
      LET R == RegisteredMethods(mres.pos)
      IN /\ (R # {} /\ mreq.method \notin R) =>
               /\ mres.kind = "notallowed"
               /\ Range(mres.allow) = R
               /\ Len(mres.allow) = Cardinality(R)
         /\ R = {} => mres.kind = "notfound"
         /\ mres.kind = "notallowed" => (R # {} /\ mreq.method \notin R)
         /\ mres.kind = "notfound" => R = {}

\* a request with an unregistered method at a path where two methods are registered
C7_Witness ==
    /\ mres.kind = "notallowed"
    /\ mreq.method = "DELETE"
    /\ Range(mres.allow) = {"GET", "POST"}

(***************************************************************************)
(* C8: whenever match returns a route, the keys of the returned params are *)
(* exactly the placeholder names of that route's own path, each bound to   *)
(* the request segment at the corresponding wildcard position.             *)
(***************************************************************************)
C8_ParamsAreRouteOwnPlaceholders ==
    mres.kind = "route" =>
      LET names == PlaceholderNames(mres.route.path)
          values == WildcardSegments(mres.route.path, mreq.path)
      IN /\ DOMAIN mres.params = Range(names)
         /\ \A i \in 1..Len(names) : mres.params[names[i]] = values[i]

(***************************************************************************)
(* C9: the middleware list match returns for a route is the App's          *)
(* middleware, then the middleware of each router the route was included   *)
(* through from the outermost to the innermost, then the route's own.      *)
(***************************************************************************)
RECURSIVE ViaMiddleware(_)
ViaMiddleware(via) ==
    IF via = <<>> THEN <<>> ELSE RouterMiddleware(Head(via)) \o ViaMiddleware(Tail(via))

C9_MiddlewareAppRoutersRoute ==
    mres.kind = "route" =>
      mres.middleware = app.middleware \o ViaMiddleware(mres.route.via) \o mres.route.middleware


(***************************************************************************)
(* What one resolution call did, read from its logs and its declarations   *)
(***************************************************************************)
RefsOf(r, d) == {i \in 1..Len(refs[r]) : refs[r][i].dep = d}
CallsOf(r, d) == {i \in 1..Len(calls[r]) : calls[r][i].dep = d}

\* the failures of the parameters of `owner` from position i on, with every
\* dependency reference expanded in place, in declaration order
RECURSIVE ErrorsFrom(_, _)
ErrorsFrom(owner, i) ==
    IF i > Len(Parameters(owner)) THEN <<>>
    ELSE LET p == Parameters(owner)[i]
             here == IF p.location = "@depends" THEN ErrorsFrom(p.dependency, 1)
                     ELSE IF ParseQuery(p, cfg.queries).success THEN <<>>
                     ELSE <<[location |-> p.location, name |-> p.name]>>
         IN here \o ErrorsFrom(owner, i + 1)

\* every parameter of d, nested ones included, validates
DepValid(d) == ErrorsFrom(d, 1) = <<>>

\* the declarations that fail, each counted once however often it is reached
FailingDeclarations == Range(ErrorsFrom("route", 1))

\* C1 (as stated): in a finished resolution call, a dependency with useCache
\* that was referenced two or more times had its handler executed exactly
\* once and every reference received the value of that execution.
C1_CachedHandlerExactlyOnce ==
    \A r \in Reqs : \A d \in DepIds :
        (pc[r] = "resolved" /\ cfg.deps[d].useCache /\ Cardinality(RefsOf(r, d)) >= 2)
        => /\ Cardinality(CallsOf(r, d)) = 1
           /\ \A i \in RefsOf(r, d) : \A j \in CallsOf(r, d) :
                  refs[r][i].value = calls[r][j].value

\* C1 (amended): a dependency with useCache never has its handler executed
\* twice in one resolution call; when the call has finished and the
\* dependency was referenced two or more times, the handler ran exactly once
\* and every reference received that value if all of the dependency's own
\* parameters validate, and it ran zero times if one of them fails.
C1_CachedHandlerOnceWhenValid ==
    \A r \in Reqs : \A d \in DepIds :
        cfg.deps[d].useCache =>
            /\ Cardinality(CallsOf(r, d)) <= 1
            /\ (pc[r] = "resolved" /\ Cardinality(RefsOf(r, d)) >= 2) =>
                   IF DepValid(d)
                   THEN /\ Cardinality(CallsOf(r, d)) = 1
                        /\ \A i \in RefsOf(r, d) : \A j \in CallsOf(r, d) :
                               refs[r][i].value = calls[r][j].value
                   ELSE CallsOf(r, d) = {}

\* d1 is cached, valid, and was referenced directly and through d2
C1_Witness ==
    \E r \in Reqs :
        /\ pc[r] = "resolved"
        /\ cfg.deps["d1"].useCache /\ DepValid("d1")
        /\ Cardinality(RefsOf(r, "d1")) >= 2
        /\ \E i \in RefsOf(r, "d1") : refs[r][i].how = "cached"
        /\ CallsOf(r, "d2") # {}
        /\ \E p \in Range(Parameters("route")) : p.dependency = "d1"

\* C4 (as stated): a finished resolution call returns as many error entries
\* as there are failing parameter declarations, K, and success = (K = 0).
C4_OneErrorPerFailingDeclaration ==
    \A r \in Reqs :
        pc[r] = "resolved" =>
            /\ Len(parseInfo[r].errors) = Cardinality(FailingDeclarations)
            /\ parseInfo[r].success = (Cardinality(FailingDeclarations) = 0)

\* C4 (amended): a finished resolution call returns one flat list with one
\* entry for every failing parameter each time it is reached (a failing
\* dependency referenced twice contributes its errors twice), in declaration
\* order, no parameter being skipped after a failure, and success is true
\* exactly when that list is empty.
C4_OneErrorPerFailingOccurrence ==
    \A r \in Reqs :
        pc[r] = "resolved" =>
            /\ parseInfo[r].errors = ErrorsFrom("route", 1)
            /\ parseInfo[r].success = (parseInfo[r].errors = <<>>)

\* a nested failure followed by a failure of a parameter of the route itself
C4_Witness ==
    \E r \in Reqs :
        /\ pc[r] = "resolved"
        /\ \E i, j \in 1..Len(parseInfo[r].errors) :
              /\ i < j
              /\ parseInfo[r].errors[i].name \in Range(ParamNames["d1"])
              /\ parseInfo[r].errors[j].name \in Range(ParamNames["route"])


(***************************************************************************)
(* What one App.handle call did, read from its trace and its objects       *)
(***************************************************************************)
Reverse(q) == [i \in 1..Len(q) |-> q[Len(q) + 1 - i]]
Delivered(r) == pc[r] = "delivered"
Chain(r) == hs[r].match.middleware
\* where in the trace of r the event ev of middleware m stands
At(r, ev, m) == {p \in 1..Len(hs[r].trace) : hs[r].trace[p] = Event(ev, m)}
\* at position p of the trace, m has been entered and has not returned yet
Inside(r, m, p) ==
    /\ \E q \in At(r, "enter", m) : q < p
    /\ \A x \in At(r, "exit", m) : x > p
Output(r) == hs[r].objs[hs[r].out]

\* C2: for the middleware list [m0, ..., mN] that match returned, m0 is the
\* first thing App.handle invokes, m(i+1) is invoked only while m(i) is
\* inside its call to next, the terminal continuation runs while every
\* middleware is inside next, the middleware return in reverse order, and a
\* response that came from the terminal continuation carries the tags in
\* reverse order of the list (m1, m2, m3 give "321").
C2_MiddlewareNesting ==
    \A r \in Reqs :
        LET mw == Chain(r)
            t == hs[r].trace
        IN /\ (t # <<>> /\ mw # <<>>) => t[1] = Event("enter", mw[1])
           /\ \A i \in 1..Len(mw) : \A p \in At(r, "enter", mw[i]) :
                  i > 1 => Inside(r, mw[i - 1], p)
           /\ \A p \in 1..Len(t) :
                  t[p].ev = "terminal" => \A i \in 1..Len(mw) : Inside(r, mw[i], p)
           /\ \A i, j \in 1..Len(mw) : \A p \in At(r, "exit", mw[i]) :
                  (i < j /\ At(r, "enter", mw[j]) # {})
                  => \E x \in At(r, "exit", mw[j]) : x < p
           /\ (Delivered(r) /\ hs[r].terminalRes # 0 /\ hs[r].errorCalls = 0)
                  => Output(r).hdr = Reverse(mw)

\* the route under the router was served through m1, m2, m3
C2_Witness ==
    \E r \in Reqs :
        /\ Delivered(r)
        /\ Chain(r) = <<"m1", "m2", "m3">>
        /\ Output(r).status = 200
        /\ Output(r).hdr = <<"m3", "m2", "m1">>

C5_InvalidGives422 ==
    \A r \in Reqs :
        ~parseInfo[r].success =>
            /\ hs[r].routeCalls = 0
            /\ pc[r] \in {"unwind", "delivered"} =>
                  /\ hs[r].terminalRes # 0
                  /\ hs[r].objs[hs[r].terminalRes].status = 422
                  /\ hs[r].objs[hs[r].terminalRes].detail = parseInfo[r].errors
                  /\ parseInfo[r].errors # <<>>

\* a parameter nested in a dependency failed and the request was answered
C5_Witness ==
    \E r \in Reqs :
        /\ Delivered(r)
        /\ ~parseInfo[r].success
        /\ Output(r).status = 422
        /\ \E i \in 1..Len(Output(r).detail) :
              Output(r).detail[i].name \in Range(ParamNames["d1"])
        /\ cfg.route.ret = "value"

\* C10: a callback registered with later runs only after App.handle has
\* delivered the response to its caller.
C10_LaterRunsAfterDelivery ==
    \A r \in Reqs : \A i \in 1..Len(hs[r].cbLog) : hs[r].cbLog[i].delivered


(***************************************************************************)
(* The declarations reached from a parameter map, dependencies expanded    *)
(***************************************************************************)
RECURSIVE Expanded(_)
Expanded(owner) ==
    UNION {{p} \cup (IF p.location = "@depends" THEN Expanded(p.dependency) ELSE {}) :
           p \in Range(Parameters(owner))}

\* C11: a successful resolveArgs returns one flat bag whose keys are exactly
\* the names declared by the caller and by every dependency reached from it,
\* at any depth: a leaf parameter's name holds its validated value and a
\* dependency's name holds a value returned by that dependency's handler.
C11_FlatArgumentBag ==
    \A r \in Reqs :
        (pc[r] = "resolved" /\ parseInfo[r].success) =>
            LET args == parseInfo[r].args
            IN /\ DOMAIN args = {p.name : p \in Expanded("route")}
               /\ \A p \in Expanded("route") :
                     IF p.location = "@depends"
                     THEN \E j \in CallsOf(r, p.dependency) : calls[r][j].value = args[p.name]
                     ELSE args[p.name] = ParseQuery(p, cfg.queries).data

\* the route has a parameter of its own and a dependency on d2, which
\* depends on d1, which has a leaf parameter: all four are in the bag
C11_Witness ==
    \E r \in Reqs :
        /\ pc[r] = "resolved" /\ parseInfo[r].success
        /\ \E p \in Range(Parameters("route")) : p.location = "query"
        /\ \E p \in Range(Parameters("route")) : p.dependency = "d2"
        /\ \E p \in Range(Parameters("d2")) : p.dependency = "d1"
        /\ \E p \in Range(Parameters("d1")) : p.location = "query"
        /\ {ParamNames["d1"][1], ParamNames["d2"][1]} \subseteq DOMAIN parseInfo[r].args


C13_UncachedHandlerPerReference ==
    \A r \in Reqs : \A d \in DepIds :
        (pc[r] = "resolved" /\ ~cfg.deps[d].useCache)
        => Cardinality(CallsOf(r, d)) = Cardinality(RefsOf(r, d))

\* C13 (amended): in a finished resolution call, a dependency with
\* useCache = false had its handler executed once for every reference the
\* call resolved, each reference receiving the value of its own execution,
\* when all of the dependency's parameters validate, and zero times when one
\* of them fails.
C13_UncachedHandlerPerValidReference ==
    \A r \in Reqs : \A d \in DepIds :
        (pc[r] = "resolved" /\ ~cfg.deps[d].useCache) =>
            IF DepValid(d)
            THEN /\ Cardinality(CallsOf(r, d)) = Cardinality(RefsOf(r, d))
                 /\ \A i \in RefsOf(r, d) : refs[r][i].how = "handled"
                 /\ \A i, j \in RefsOf(r, d) : i # j => refs[r][i].value # refs[r][j].value
            ELSE CallsOf(r, d) = {}

\* d1 is not cached, valid, and was resolved for the route and inside d2
C13_Witness ==
    \E r \in Reqs :
        /\ pc[r] = "resolved"
        /\ ~cfg.deps["d1"].useCache /\ DepValid("d1")
        /\ Cardinality(RefsOf(r, "d1")) >= 2
        /\ Cardinality(CallsOf(r, "d1")) = Cardinality(RefsOf(r, "d1"))
        /\ CallsOf(r, "d2") # {}


\* C14: with several requests interleaved on one App, a cached dependency
\* is executed at most once by each request and exactly once by each
\* request that has resolved a reference to it, every value a request
\* receives for a dependency was produced by that request's own execution,
\* and the later callbacks of a request run only once its own promise is
\* resolved, with its own response, at most once each.
C14_RequestScoped ==
    \A r \in Reqs :
        /\ \A d \in DepIds :
              cfg.deps[d].useCache =>
                  /\ Cardinality(CallsOf(r, d)) <= 1
                  /\ RefsOf(r, d) # {} => Cardinality(CallsOf(r, d)) = 1
        /\ \A i \in 1..Len(refs[r]) : refs[r][i].value.req = r
        /\ \A k \in DOMAIN parseInfo[r].args :
              parseInfo[r].args[k].t = "dep" => parseInfo[r].args[k].req = r
        /\ Len(hs[r].cbLog) <= Len(laters[r])
        /\ \A i \in 1..Len(hs[r].cbLog) :
              /\ hs[r].promise # 0
              /\ hs[r].cbLog[i].res = hs[r].promise
              /\ hs[r].cbLog[i].dep = laters[r][i]

\* two requests are resolving at once, each with its own cached value of d1,
\* and one of them was served its own value from its cache
C14_Witness ==
    \E r, o \in Reqs :
        /\ r # o
        /\ pc[r] = "resolve" /\ pc[o] = "resolve"
        /\ "d1" \in DOMAIN cache[r] /\ "d1" \in DOMAIN cache[o]
        /\ cache[r]["d1"].value # cache[o]["d1"].value
        /\ \E i \in RefsOf(r, "d1") : refs[r][i].how = "cached"


\* C15: a value that is not a Response, thrown by match, by a dependency
\* handler, by the route handler or by a middleware, reaches the outer catch
\* of App.handle: the error handler is invoked exactly once for it (and never
\* otherwise, never twice) and App.handle returns the error handler's
\* response.
C15_ErrorHandledOnce ==
    \A r \in Reqs :
        /\ hs[r].errorCalls <= 1
        /\ hs[r].errorCalls = 1 => hs[r].exc = "throwError"
        /\ (Delivered(r) /\ hs[r].exc = "throwError") =>
              /\ hs[r].errorCalls = 1
              /\ hs[r].out = Len(hs[r].objs)
              /\ Output(r) = NewResponse(500, "Internal Server Error", <<>>)

\* an Error thrown by a dependency handler inside two middleware was answered
\* by the error handler
C15_Witness ==
    \E r \in Reqs :
        /\ Delivered(r)
        /\ raised[r] = "throwError"
        /\ calls[r] # <<>>
        /\ hs[r].routeCalls = 0
        /\ Len(hs[r].trace) >= 6
        /\ hs[r].errorCalls = 1
        /\ Output(r).status = 500


\* the middleware attached to the root and to the nodes along pos, in
\* root-to-leaf order
RECURSIVE NodesMiddleware(_, _, _)
NodesMiddleware(tree, pos, k) ==
    IF k > Len(pos) THEN <<>>
    ELSE tree[SubSeq(pos, 1, k)].middleware \o NodesMiddleware(tree, pos, k + 1)

\* C16: for a request that matches no route, match returns not-found or
\* method-not-allowed together with the middleware attached to the root and
\* to every trie node matched before the walk stopped, in root-to-leaf order.
C16_FailedPathKeepsMiddleware ==
    (Matched /\ mres.kind # "route") =>
        /\ mres.kind \in {"notfound", "notallowed"}
        /\ mres.middleware = NodesMiddleware(app.routeMatcher.tree, mres.pos, 0)


\* C17: when the middleware at position k of the chain returns a response
\* without calling next, no middleware after it is invoked, the terminal
\* continuation does not run, no dependency handler and no route handler is
\* invoked, and App.handle returns the response that middleware created
\* after it has passed through the middleware before it, innermost first.
C17_ShortCircuit ==
    \A r \in Reqs : \A k \in 1..Len(Chain(r)) :
        (cfg.mw[Chain(r)[k]] = "short" /\ At(r, "enter", Chain(r)[k]) # {}) =>
            /\ \A j \in 1..Len(Chain(r)) : j > k => At(r, "enter", Chain(r)[j]) = {}
            /\ At(r, "terminal", "") = {}
            /\ calls[r] = <<>>
            /\ hs[r].routeCalls = 0
            /\ hs[r].terminalRes = 0
            /\ Delivered(r) =>
                  /\ Output(r).status = 400
                  /\ Output(r).body = Chain(r)[k]
                  /\ Output(r).hdr = Reverse(SubSeq(Chain(r), 1, k - 1))
                  /\ hs[r].errorCalls = 0

\* m2 answered a request for the route itself and m1 post-processed the answer
C17_Witness ==
    \E r \in Reqs :
        /\ Delivered(r)
        /\ hs[r].match.kind = "route"
        /\ cfg.mw["m2"] = "short"
        /\ Output(r).body = "m2"
        /\ Output(r).hdr = <<"m1">>


\* C18: the callbacks registered with the later of one createResolveLater
\* pair run in registration order, each at most once and none before resolve
\* has been called, each receives the Response passed to the first resolve
\* call, and once resolve has been called and no reaction job is left every
\* registered callback has run exactly once.
C18_LaterOrderOnceAfterResolve ==
    \A r \in Reqs :
        LET log == hs[r].cbLog
        IN /\ Len(log) <= Len(laters[r])
           /\ \A i \in 1..Len(log) :
                 /\ log[i].dep = laters[r][i]
                 /\ ResolveCalls(r) # {}
                 \* the object the first resolve call created and passed
                 /\ log[i].res = 1
           /\ (ResolveCalls(r) # {} /\ microtasks[r] = <<>>) => Len(log) = Len(laters[r])

\* resolve was called twice and three callbacks have run, in order, each
\* with the value of the first call
C18_Witness ==
    \E r \in Reqs :
        /\ Cardinality(ResolveCalls(r)) = 2
        /\ Len(hs[r].cbLog) = 3
        /\ microtasks[r] = <<>>
        /\ hs[r].trace[1].ev = "resolve"
        /\ \A i \in 1..3 : hs[r].cbLog[i].res = 1


\* C19: every later callback of a request receives the response App.handle
\* returns: the same object, in the state in which the caller receives it.
C19_LaterReceivesFinalResponse ==
    \A r \in Reqs :
        Delivered(r) =>
            \A i \in 1..Len(hs[r].cbLog) :
                /\ hs[r].cbLog[i].res = hs[r].out
                /\ hs[r].cbLog[i].seen = Output(r)

\* C20: when the terminal continuation ends in a 422 or in a Response thrown
\* by a dependency handler or the route handler, every later callback
\* registered for the request until then has been invoked, in registration
\* order, with that response, by the time App.handle returns.
C20_LaterRunsOnFailure ==
    \A r \in Reqs :
        (Delivered(r) /\ hs[r].terminalRes # 0
           /\ (hs[r].raisedRes # 0 \/ hs[r].objs[hs[r].terminalRes].status = 422)) =>
            /\ Len(hs[r].cbLog) = Len(laters[r])
            /\ \A i \in 1..Len(laters[r]) :
                  /\ hs[r].cbLog[i].dep = laters[r][i]
                  /\ hs[r].cbLog[i].res = hs[r].terminalRes

\* d1 registered a callback, a sibling parameter failed validation, the
\* request was answered 422 and the callback received that response
C20_Witness ==
    \E r \in Reqs :
        /\ Delivered(r)
        /\ ~parseInfo[r].success
        /\ laters[r] # <<>>
        /\ Len(hs[r].cbLog) = Len(laters[r])
        /\ hs[r].cbLog[1].seen.status = 422


\* the names a parameter map declares itself
OwnNames(owner) == {p.name : p \in Range(Parameters(owner))}

\* C21 (as stated): the bag a dependency's handler is invoked with holds
\* only the names the dependency declares itself.
C21_HandlerGetsOwnNamesOnly ==
    \A r \in Reqs : \A j \in 1..Len(calls[r]) :
        DOMAIN calls[r][j].args = OwnNames(calls[r][j].dep)

\* C21 (amended): the bag a dependency's handler is invoked with holds the
\* names the dependency declares itself and, flattened to the top level,
\* every name declared by the dependencies nested below it; none of the
\* names of the map that references the dependency is in it.
C21_HandlerGetsFlattenedNames ==
    \A r \in Reqs : \A j \in 1..Len(calls[r]) :
        LET d == calls[r][j].dep
            args == calls[r][j].args
        IN /\ DOMAIN args = {p.name : p \in Expanded(d)}
           /\ \A p \in Range(Parameters(d)) :
                 p.location # "@depends" => args[p.name] = ParseQuery(p, cfg.queries).data
           /\ DOMAIN args \cap OwnNames("route") = {}

\* the handler of d2 was invoked with the leaf parameter of d1 in its bag
C21_Witness ==
    \E r \in Reqs : \E j \in CallsOf(r, "d2") :
        /\ \E p \in Range(Parameters("d2")) : p.dependency = "d1"
        /\ Parameters("d1") # <<>>
        /\ ParamNames["d1"][1] \in DOMAIN calls[r][j].args
        /\ ParamNames["d1"][1] \notin OwnNames("d2")


\* C22 (as stated): the path stored by a Route begins with exactly one
\* slash and has no trailing slash unless it is exactly "/".
C22_RoutePathNormalized ==
    phase = "constructed" =>
        LET path == mres.route.path
        IN /\ Len(path) >= 1
           /\ path[1] = "/"
           /\ Len(path) >= 2 => path[2] # "/"
           /\ path # <<"/">> => path[Len(path)] # "/"

\* the letters and separators of a pair that has an "="
FirstEq(pair) == CHOOSE k \in 1..Len(pair) : pair[k] = "=" /\ \A j \in 1..(k - 1) : pair[j] # "="
HasEq(pair) == \E k \in 1..Len(pair) : pair[k] = "="
NameOf(pair) == Trim(SubSeq(pair, 1, FirstEq(pair) - 1))
RawValueOf(pair) == Trim(SubSeq(pair, FirstEq(pair) + 1, Len(pair)))
Quoted(v) == Len(v) >= 2 /\ v[1] = "\"" /\ v[Len(v)] = "\""
Bare(v) == v = <<>> \/ v[1] # "\"" \/ v[Len(v)] # "\""

\* C23: the map holds exactly the names of the pairs that have an "=";
\* each name is what precedes the pair's first "=" and its value is what
\* follows it, later "=" included, taken from the last pair of that name,
\* without one layer of surrounding double quotes, then percent-decoded
\* (kept raw when decoding fails).
C23_ParseCookie ==
    phase = "parsed" =>
        LET pairs == Split(mreq.cookie, ";")
            named == {i \in 1..Len(pairs) : HasEq(pairs[i])}
            cookies == mres.params
        IN /\ DOMAIN cookies = {NameOf(pairs[i]) : i \in named}
           /\ \A i \in named :
                 (\A j \in named : j > i => NameOf(pairs[j]) # NameOf(pairs[i])) =>
                     LET raw == RawValueOf(pairs[i])
                         stored == cookies[NameOf(pairs[i])]
                     IN /\ Quoted(raw) =>
                              LET in == SubSeq(raw, 2, Len(raw) - 1)
                              IN stored = IF decodeURIComponent(in).ok
                                          THEN decodeURIComponent(in).out ELSE in
                        /\ Bare(raw) =>
                              stored = IF decodeURIComponent(raw).ok
                                       THEN decodeURIComponent(raw).out ELSE raw

\* a header with a token without "=", a repeated name whose last value
\* differs from the first and holds an "=", was parsed
C23_Witness ==
    /\ phase = "parsed"
    /\ LET pairs == Split(mreq.cookie, ";")
       IN /\ Len(pairs) = 3
          /\ ~HasEq(pairs[1]) /\ Trim(pairs[1]) # <<>>
          /\ HasEq(pairs[2]) /\ HasEq(pairs[3])
          /\ NameOf(pairs[2]) = NameOf(pairs[3])
          /\ RawValueOf(pairs[2]) # RawValueOf(pairs[3])
          /\ mres.params[NameOf(pairs[3])] = <<"=">>


\* the frame of a call of resolveArgs that has walked all its parameters
\* and is about to return
Returning(f) == f.idx > Len(Parameters(f.owner))

\* C24: whenever a call of resolveArgs returns, at any depth, its result is
\* successful exactly when its error list is empty; a cache hit leaves the
\* success flag and the error list of the call as they were.
C24_SuccessIffNoErrors ==
    /\ [](\A r \in Reqs :
            /\ \A i \in 1..Len(stack[r]) :
                  Returning(stack[r][i]) =>
                      (stack[r][i].success <=> stack[r][i].errors = <<>>)
            /\ pc[r] = "resolved" =>
                  (parseInfo[r].success <=> parseInfo[r].errors = <<>>))
    /\ [][\A r \in Reqs :
            ResolveCached(r) =>
                /\ Top(r)'.success = Top(r).success
                /\ Top(r)'.errors = Top(r).errors]_vars

\* a call returned a failure with its error after a cache hit in the same
\* resolution
C24_Witness ==
    \E r \in Reqs :
        /\ pc[r] = "resolved"
        /\ ~parseInfo[r].success
        /\ Len(parseInfo[r].errors) = 1
        /\ \E i \in 1..Len(refs[r]) : refs[r][i].how = "cached"
        /\ \E i \in 1..Len(refs[r]) : refs[r][i].how = "failed"

\* C25: a dependency with a failing parameter anywhere in its expanded
\* parameter map never has its handler invoked and never gets a cache
\* entry; every cache entry holds the value and the arguments of a handler
\* call that returned in the same request.
C25_NoHandlerNoCacheOnFailure ==
    \A r \in Reqs : \A d \in DepIds :
        /\ ~DepValid(d) => CallsOf(r, d) = {} /\ d \notin DOMAIN cache[r]
        /\ d \in DOMAIN cache[r] =>
              \E j \in CallsOf(r, d) :
                  /\ calls[r][j].value = cache[r][d].value
                  /\ calls[r][j].args = cache[r][d].args

\* a dependency whose own parameters validate and whose nested dependency
\* has a failing parameter was resolved to the end
C25_Witness ==
    \E r \in Reqs : \E d \in DepIds :
        /\ pc[r] = "resolved"
        /\ \E p \in Range(Parameters(d)) : p.location = "@depends" /\ ~DepValid(p.dependency)
        /\ \A p \in Range(Parameters(d)) :
              p.location # "@depends" => ParseQuery(p, cfg.queries).success
        /\ \E i \in RefsOf(r, d) : refs[r][i].how = "failed"
        /\ CallsOf(r, d) = {}


\* a registered path whose segments, the placeholders counted as matching
\* anything, spell the whole request path
PatternMatches(path) ==
    /\ Len(KeyPath(path)) = Len(ReqNodes)
    /\ \A i \in 1..Len(ReqNodes) :
          KeyPath(path)[i] = WildKey \/ KeyPath(path)[i] = ReqNodes[i]

\* a trie position that takes a wildcard only where the request segment has
\* no literal node under the same parent
TakesLiteralFirst(pos) ==
    \A i \in 1..Len(pos) :
        pos[i] = WildKey =>
            Append(SubSeq(pos, 1, i - 1), ReqNodes[i]) \notin DOMAIN app.routeMatcher.tree

\* C26: match returns a route exactly when a route of the request's method
\* matches the whole path along the literal-first walk; a route that
\* matches the whole path only through a wildcard whose literal sibling
\* exists is never returned, the result being not-found or
\* method-not-allowed instead.
C26_NoBacktracking ==
    (Matched /\ mres.kind # "throw") =>
        /\ mres.kind = "route" <=>
              \E rt \in AppRoutes :
                  /\ rt.method = mreq.method
                  /\ PatternMatches(rt.path)
                  /\ TakesLiteralFirst(KeyPath(rt.path))
        /\ mres.kind = "route" =>
              /\ PatternMatches(mres.route.path)
              /\ TakesLiteralFirst(KeyPath(mres.route.path))
        /\ mres.kind # "route" => mres.kind \in {"notfound", "notallowed"}

\* a request was refused although a wildcard route of its method matches
\* the whole path
C26_Witness ==
    /\ mres.kind = "notfound"
    /\ Len(ReqNodes) = 2
    /\ mres.pos = <<ReqNodes[1]>>
    /\ \E rt \in AppRoutes :
          /\ rt.method = mreq.method
          /\ PatternMatches(rt.path)
          /\ KeyPath(rt.path) = <<WildKey, WildKey>>


\* obj[k], undefined when the key is absent
Get(obj, k) == IF k \in DOMAIN obj THEN obj[k] ELSE Undefined

\* C27 (as stated): in the bag returned by resolveArgs every name declared
\* directly in the map holds the value resolved for that declaration (the
\* validated value of a leaf, the value the dependency's handler returned),
\* wherever the declaration stands in the map.
C27_DeclaredNameWins ==
    \A r \in Reqs :
        (pc[r] = "resolved" /\ parseInfo[r].success) =>
            \A p \in Range(Parameters("route")) :
                IF p.location = "@depends"
                THEN \A i \in RefsOf(r, p.dependency) :
                        Get(parseInfo[r].args, p.name) = refs[r][i].value
                ELSE Get(parseInfo[r].args, p.name) = ParseQuery(p, cfg.queries).data


C29_LaterLostOnError ==
    \A r \in Reqs :
        (raised[r] = "throwError" /\ laters[r] # <<>>) =>
            /\ hs[r].promise = 0
            /\ hs[r].cbLog = <<>>
            /\ \A i \in 1..Len(microtasks[r]) : microtasks[r][i].kind # "cb"
            /\ Delivered(r) =>
                  /\ hs[r].errorCalls = 1
                  /\ Output(r).status = 500
                  /\ microtasks[r] = <<>>

\* the route handler threw an Error after d2 and d1 had registered their
\* callbacks, and the request was answered by the error handler
C29_Witness ==
    \E r \in Reqs :
        /\ Delivered(r)
        /\ raised[r] = "throwError"
        /\ cfg.route.ret = "throwError"
        /\ hs[r].routeCalls = 1
        /\ Len(laters[r]) = 2
        /\ hs[r].cbLog = <<>>
        /\ Output(r).status = 500


\* C30: every call of App.handle eventually completes; it completes with one
\* response, which stays the response of the call; the terminal continuation
\* runs at most once and no middleware is invoked more than once.
C30_HandleTerminates ==
    /\ \A r \in Reqs : (pc[r] # "idle") ~> Delivered(r)
    /\ [](\A r \in Reqs :
            /\ Cardinality(At(r, "terminal", "")) <= 1
            /\ \A m \in MiddlewareTags : Cardinality(At(r, "enter", m)) <= 1
            /\ hs[r].routeCalls <= 1
            /\ Delivered(r) <=> hs[r].out # 0
            /\ Delivered(r) => hs[r].out \in 1..Len(hs[r].objs))
    /\ [][\A r \in Reqs :
            Delivered(r) => Delivered(r)' /\ hs[r].out' = hs[r].out /\ Output(r)' = Output(r)]_vars

\* a call that went through m1, m2, m3, the terminal continuation, both
\* dependencies and the route handler has completed
C30_Witness ==
    \E r \in Reqs :
        /\ Delivered(r)
        /\ \A m \in {"m1", "m2", "m3"} : Cardinality(At(r, "enter", m)) = 1
        /\ Cardinality(At(r, "terminal", "")) = 1
        /\ Len(calls[r]) = 2
        /\ hs[r].routeCalls = 1
        /\ hs[r].out # 0

====
